---- MODULE Spec2Model ----
(***************************************************************************)
(* Model of the Berbel BLE client (custom_components/berbel/berbel_ble/    *)
(* client.py): the pooled connection of BerbelBluetoothDeviceData, its     *)
(* idle-disconnect timer, its asyncio lock and the coroutines that use     *)
(* them.  asyncio is cooperative: a coroutine runs without interruption    *)
(* from one await that really suspends (a transport call, a sleep, a wait  *)
(* for the lock) to the next, so every action below is one such run.       *)
(***************************************************************************)
EXTENDS Integers, Sequences, FiniteSets, TLC

\* ---------------------------------------------------------------- bounds
NumTeardown == 1     \* teardown tasks created by the timer callback in flight
MaxConns == 2        \* connections the transport keeps track of at one time
MaxAttempts == 2     \* largest max_retries passed to update_device
NumCallers == 2      \* service calls in _execute_command_optimized at one time

\* ------------------------------------------------------ program constants
CONNECTION_TIMEOUT == 20
MIN_FAN_LEVEL == 0
MAX_FAN_LEVEL == 3
MIN_PERCENT == 0
MAX_PERCENT == 100
MIN_KELVIN == 2700
MAX_KELVIN == 6500

\* The coroutines that call into one client: the coordinator's poll, which
\* runs update_device (coordinator.py:50), and its service caller, which runs
\* the control methods one at a time under the coordinator's own lock
\* (coordinator.py:104) and disconnect() (coordinator.py:240).  The remaining
\* coroutines are the tasks made by the timer callback.
Clients == {1, 2}
Role(t) == CASE t = 1 -> "poll" [] t = 2 -> "service" [] OTHER -> "teardown"
Teardowns == (Cardinality(Clients) + 1)..(Cardinality(Clients) + NumTeardown)
Procs == Clients \cup Teardowns
Conns == 1..MaxConns

\* The radio peers handed to the client: a modern hood and a legacy hood,
\* at different addresses.
Peers == 1..2
PeerName(p) == IF p = 2 THEN <<"H", "O", "O", "D", "_", "P", "E", "R">>
               ELSE <<"S", "K", "E">>
PeerAddress(p) == IF p = 1 THEN "AA" ELSE "BB"

\* --------------------------------------------------------- _detect_legacy
\* Strings are sequences of characters.  str.upper() and str.lower() change
\* the letters and leave every other character as it is.
LowerLetters == <<"a", "b", "c", "d", "e", "f", "h", "k", "o", "p", "r", "s">>
UpperLetters == <<"A", "B", "C", "D", "E", "F", "H", "K", "O", "P", "R", "S">>

UpperChar(c) ==
    IF \E i \in DOMAIN LowerLetters : LowerLetters[i] = c
    THEN UpperLetters[CHOOSE i \in DOMAIN LowerLetters : LowerLetters[i] = c]
    ELSE c

LowerChar(c) ==
    IF \E i \in DOMAIN UpperLetters : UpperLetters[i] = c
    THEN LowerLetters[CHOOSE i \in DOMAIN UpperLetters : UpperLetters[i] = c]
    ELSE c

\* Variant: the name is compared as it is advertised.
upper_unchanged(str) == str

upper(str) == [i \in DOMAIN str |-> UpperChar(str[i])]

lower(str) == [i \in DOMAIN str |-> LowerChar(str[i])]

\* `sub in str`
Contains(str, sub) ==
    \E o \in 0..(Len(str) - Len(sub)) :
        \A i \in 1..Len(sub) : str[o + i] = sub[i]

DEFAULT_LEGACY_DEVICE_NAME == <<"H", "O", "O", "D", "_", "P", "E", "R">>
LEGACY_UUID_SERVICE == <<"6", "E", "-", "B", "5", "A", "3">>
LEGACY_UUID_SERVICE_2018 == <<"6", "e", "-", "f", "0", "0", "1">>

\* A BLEDevice as _detect_legacy sees it: name is a string or "None"
\* (has_name FALSE); reading it may raise; metadata is missing, not a dict
\* or a dict whose "uuids" entry is a list (empty when the entry is missing
\* or None) of strings and, possibly, of values that are not strings.
BLEDevice(name, uuids) ==
    [has_name |-> TRUE, name |-> name, name_raises |-> FALSE,
     metadata |-> "dict", uuids |-> uuids]

\* Lines 171-185
DetectLegacy(ble_device) ==
    IF ble_device.name_raises
    THEN FALSE                                   \* except Exception
    ELSE LET name == upper(IF ble_device.has_name THEN ble_device.name ELSE <<>>)
         IN  IF Contains(name, DEFAULT_LEGACY_DEVICE_NAME)
             THEN TRUE
             ELSE LET uuids == IF ble_device.metadata = "dict"
                               THEN ble_device.uuids ELSE <<>>
                      legacy_candidates == {lower(LEGACY_UUID_SERVICE),
                                            lower(LEGACY_UUID_SERVICE_2018)}
                  IN  IF \E i \in DOMAIN uuids : ~uuids[i].is_str
                      THEN FALSE                 \* u.lower() raises
                      ELSE \E i \in DOMAIN uuids :
                               lower(uuids[i].val) \in legacy_candidates

detect_legacy(p) == DetectLegacy(BLEDevice(PeerName(p), <<>>))

VARIABLES
    active_client,              \* _active_client: 0 (None) or a connection
    active_device,              \* _active_device: 0 (None) or a peer
    connection_timeout_handle,  \* "None", "armed" or "dead" (fired/cancelled)
    loop_timers,                \* timers scheduled on the event loop, not yet fired or cancelled
    timer_remaining,            \* time left on the timer the handle refers to
    disconnect_pending,         \* _disconnect_pending
    legacy_mode,                \* _legacy_mode
    lock_owner,                 \* _connection_lock: 0 or the coroutine holding it
    lock_waiters,               \* _connection_lock: FIFO of waiting coroutines
    conn_state,                 \* transport: "unused", "up", "down", "closed" per connection
    task,                       \* the coroutines: position and locals
    disposed,                   \* disconnect() has returned and no operation was started since
    consecutive_failures,       \* coordinator: _consecutive_failures
    data,                       \* coordinator: self.data, "None" or the last status returned
    poll,                       \* coordinator: position and outcome of _async_update_data
    calc,                       \* a call of one of the pure functions: arguments and result
    command                     \* coordinator: _connection_lock and the command callers

vars == <<active_client, active_device, connection_timeout_handle, loop_timers,
          timer_remaining, disconnect_pending, legacy_mode, lock_owner,
          lock_waiters, conn_state, task, disposed,
          consecutive_failures, data, poll, calc, command>>

NoException == [type |-> "None", attempt |-> 0]
NoResult == [kind |-> "none", exc |-> "None", attempt |-> 0]

IdleTask == [pc |-> "idle", op |-> "none", dev |-> 0, args |-> <<>>,
             path |-> "modern", attempt |-> 0, max_retries |-> 0,
             client |-> 0, ret |-> "none", rd |-> 0,
             last_exception |-> NoException, result |-> NoResult,
             n_acquire |-> 0, n_connect |-> 0, n_write |-> 0,
             n_disc |-> 0, n_backoff |-> 0,
             wlen |-> -1]    \* length of the frame given to write_gatt_char, -1: none

\* The whole state as one record, so that the synchronous stretch of code
\* between two awaits can be written as a function from state to state.
Cur == [active_client |-> active_client, active_device |-> active_device,
        handle |-> connection_timeout_handle, loop_timers |-> loop_timers,
        remaining |-> timer_remaining, disconnect_pending |-> disconnect_pending,
        legacy_mode |-> legacy_mode, lock_owner |-> lock_owner,
        lock_waiters |-> lock_waiters, conn_state |-> conn_state,
        task |-> task,
        disposed |-> disposed]

\* A connection that neither the manager nor a coroutine references any more
\* can no longer be used or closed by the client: it is not tracked further.
Referenced(s, c) ==
    \/ s.active_client = c
    \/ \E t \in Procs : s.task[t].client = c

Collect(s) ==
    LET gone == {c \in Conns : ~Referenced(s, c)}
    IN  [s EXCEPT !.conn_state = [c \in Conns |-> IF c \in gone THEN "unused" ELSE @[c]]]

ApplyClient(state) ==
    LET s == Collect(state) IN
    /\ active_client' = s.active_client
    /\ active_device' = s.active_device
    /\ connection_timeout_handle' = s.handle
    /\ loop_timers' = s.loop_timers
    /\ timer_remaining' = s.remaining
    /\ disconnect_pending' = s.disconnect_pending
    /\ legacy_mode' = s.legacy_mode
    /\ lock_owner' = s.lock_owner
    /\ lock_waiters' = s.lock_waiters
    /\ conn_state' = s.conn_state
    /\ task' = s.task
    /\ disposed' = s.disposed

Apply(state) ==
    /\ ApplyClient(state)
    /\ UNCHANGED <<consecutive_failures, data, poll, calc, command>>

\* BerbelDataUpdateCoordinator.__init__: no failures counted, no data yet.
IdlePoll == [pc |-> "idle", before |-> "None", failed |-> FALSE, streak |-> 0,
             error |-> "None", outcome |-> "none", value |-> "None",
             last_update_success |-> TRUE]

\* The service calls that run _execute_command_optimized, the
\* coordinator's own asyncio.Lock (coordinator.py:39) with its FIFO of
\* waiters, and the peer the coordinator was set up for (0 where the callers
\* of the client choose the peer themselves).
Callers == 1..NumCallers

NoCommands == [owner |-> 0, waiters |-> <<>>, pc |-> [c \in Callers |-> "idle"],
               immediate_refresh |-> TRUE, ble_device |-> 0]

CoordinatorInit ==
    /\ consecutive_failures = 0
    /\ data = "None"
    /\ poll = IdlePoll
    /\ command = NoCommands

\* No pure function is being evaluated.
NoCalc == [fn |-> "none"]

ClientInit ==
    /\ active_client = 0
    /\ active_device = 0
    /\ connection_timeout_handle = "None"
    /\ loop_timers = 0
    /\ timer_remaining = 0
    /\ disconnect_pending = FALSE
    /\ legacy_mode = FALSE
    /\ lock_owner = 0
    /\ lock_waiters = <<>>
    /\ conn_state = [c \in Conns |-> "unused"]
    /\ task = [t \in Procs |-> IdleTask]
    /\ disposed = FALSE

Init ==
    /\ ClientInit
    /\ CoordinatorInit
    /\ calc = NoCalc

\* ------------------------------------------------------------- the timer
\* asyncio.Handle.cancel(): a no-op on a handle that fired or was cancelled.
cancel_handle(s) ==
    IF s.handle = "armed"
    THEN [s EXCEPT !.handle = "dead", !.loop_timers = @ - 1, !.remaining = 0]
    ELSE s

\* Variant: an idle timer that is still running is left as it is.
schedule_disconnect_keeps_running(s) ==
    IF s.handle = "armed"
    THEN s
    ELSE [s EXCEPT !.handle = "armed", !.loop_timers = @ + 1,
                   !.remaining = CONNECTION_TIMEOUT]

\* Variant: the new timer is started without cancelling the one before.
schedule_disconnect_no_cancel(s) ==
    [s EXCEPT !.handle = "armed", !.loop_timers = @ + 1,
              !.remaining = CONNECTION_TIMEOUT]

\* Lines 81-94
schedule_disconnect(s) ==
    LET c == IF s.handle # "None" THEN cancel_handle(s) ELSE s
    IN  [c EXCEPT !.handle = "armed", !.loop_timers = @ + 1,
                  !.remaining = CONNECTION_TIMEOUT]

\* -------------------------------------------------------------- the lock
\* asyncio.Lock.release(): the first waiter is woken and no later acquirer
\* can overtake it, so ownership passes to the head of the queue.
release(s) ==
    IF s.lock_waiters = <<>>
    THEN [s EXCEPT !.lock_owner = 0]
    ELSE [s EXCEPT !.lock_owner = Head(s.lock_waiters),
                   !.lock_waiters = Tail(s.lock_waiters)]

\* ------------------------------------------------------- ends of a call
\* The coroutine is over: the result is handed to the caller, which is
\* resumed in the same run of the event loop (action Resume below).
Finished(s, t, res) ==
    [s EXCEPT !.task[t].pc = "done", !.task[t].result = res,
              !.task[t].client = 0, !.task[t].ret = "none", !.task[t].rd = 0,
              !.task[t].wlen = -1]

Return(s, t) ==
    Finished(s, t, [kind |-> "ok", exc |-> "None", attempt |-> s.task[t].attempt])

Raise(s, t, e) ==
    Finished(s, t, [kind |-> "raise", exc |-> e.type, attempt |-> e.attempt])

TaskEnd(s, t) == [s EXCEPT !.task[t] = IdleTask]

\* ------------------------------------------------------- the operations
ExecuteCommandOps == {"set_fan_level", "set_both_lights_on", "set_both_lights_brightness"}
LegacySenderOps == {"set_fan_level", "set_both_lights_on"}
StatusWriteOps == {"set_light_top_on", "set_light_bottom_on",
                   "set_light_top_brightness", "set_light_bottom_brightness"}
ColorOps == {"set_light_top_color", "set_light_bottom_color", "set_both_lights_color"}
KelvinOps == {"set_light_top_color_kelvin", "set_light_bottom_color_kelvin",
              "set_both_lights_color_kelvin"}
ControlOps == ExecuteCommandOps \cup StatusWriteOps \cup ColorOps \cup KelvinOps

\* Python's int(x / y) for x >= 0, y > 0
IntDiv(x, y) == x \div y

InRange(lo, x, hi) == lo <= x /\ x <= hi

\* ----------------------------------------------------------- the frames
\* Byte strings are sequences of numbers 0..255; Python's index i is i + 1
\* here.  An optional argument is <<>> (None) or <<v>>.
COMMAND_LENGTH == 31

Zeros(n) == [i \in 1..n |-> 0]

\* bytearray.fromhex("0163" + 29 times "00")
BrightnessTemplate == <<1, 99>> \o Zeros(29)

ValueErrorResult == [exc |-> "ValueError", frame |-> <<>>]

\* commands.py lines 6-30
create_light_brightness_command(top_brightness, bottom_brightness) ==
    IF top_brightness # <<>> /\ ~InRange(0, top_brightness[1], 255)
    THEN ValueErrorResult
    ELSE IF bottom_brightness # <<>> /\ ~InRange(0, bottom_brightness[1], 255)
    THEN ValueErrorResult
    ELSE [exc |-> "None",
          frame |-> [i \in 1..Len(BrightnessTemplate) |->
                       IF i = 6 /\ top_brightness # <<>> THEN top_brightness[1]
                       ELSE IF i = 5 /\ bottom_brightness # <<>> THEN bottom_brightness[1]
                       ELSE BrightnessTemplate[i]]]

\* Variant: the percentage is counted from MIN_KELVIN upwards.
KelvinToPercentFromMin(k) == IntDiv(100 * (k - MIN_KELVIN), MAX_KELVIN - MIN_KELVIN)

KelvinToPercent(k) == IntDiv(100 * (MAX_KELVIN - k), MAX_KELVIN - MIN_KELVIN)


\* Variant: only the lower end of each range is checked.
ArgsValidLowerOnly(op, a) ==
    CASE op = "set_fan_level" -> MIN_FAN_LEVEL <= a[1]
      [] op \in {"set_light_top_brightness", "set_light_bottom_brightness",
                 "set_light_top_color", "set_light_bottom_color"} ->
            MIN_PERCENT <= a[1]
      [] op \in {"set_both_lights_brightness", "set_both_lights_color"} ->
            MIN_PERCENT <= a[1] /\ MIN_PERCENT <= a[2]
      [] op \in {"set_light_top_color_kelvin", "set_light_bottom_color_kelvin"} ->
            MIN_KELVIN <= a[1]
      [] op = "set_both_lights_color_kelvin" ->
            MIN_KELVIN <= a[1] /\ MIN_KELVIN <= a[2]
      [] OTHER -> TRUE

\* The range checks each method makes before it touches the lock.
ArgsValid(op, a) ==
    CASE op = "set_fan_level" -> InRange(MIN_FAN_LEVEL, a[1], MAX_FAN_LEVEL)
      [] op \in {"set_light_top_brightness", "set_light_bottom_brightness",
                 "set_light_top_color", "set_light_bottom_color"} ->
            InRange(MIN_PERCENT, a[1], MAX_PERCENT)
      [] op \in {"set_both_lights_brightness", "set_both_lights_color"} ->
            InRange(MIN_PERCENT, a[1], MAX_PERCENT) /\ InRange(MIN_PERCENT, a[2], MAX_PERCENT)
      [] op \in {"set_light_top_color_kelvin", "set_light_bottom_color_kelvin"} ->
            /\ InRange(MIN_KELVIN, a[1], MAX_KELVIN)
            /\ InRange(MIN_PERCENT, KelvinToPercent(a[1]), MAX_PERCENT)
      [] op = "set_both_lights_color_kelvin" ->
            /\ InRange(MIN_KELVIN, a[1], MAX_KELVIN)
            /\ InRange(MIN_KELVIN, a[2], MAX_KELVIN)
            /\ InRange(MIN_PERCENT, KelvinToPercent(a[1]), MAX_PERCENT)
            /\ InRange(MIN_PERCENT, KelvinToPercent(a[2]), MAX_PERCENT)
      [] OTHER -> TRUE

\* ------------------------------------------------- _disconnect_internal
\* Lines 98-104: cancel and forget the timer, then, when a client is held,
\* call its disconnect() and suspend; with no client held the coroutine goes
\* straight on with the code after the call, which ret names.
RECURSIVE AfterDisconnect(_, _)

disconnect_internal(s, t, ret) ==
    LET s1 == IF s.handle # "None"
              THEN [cancel_handle(s) EXCEPT !.handle = "None"]
              ELSE s
    IN  IF s1.active_client # 0
        THEN [s1 EXCEPT !.task[t].pc = "disconnecting",
                        !.task[t].client = s1.active_client,
                        !.task[t].ret = ret,
                        !.task[t].n_disc = @ + 1]
        ELSE AfterDisconnect([s1 EXCEPT !.task[t].ret = ret], t)

\* Variant: the finally clause clears the pending flag only.
disconnect_finally_keeps_client(s) ==
    [s EXCEPT !.disconnect_pending = FALSE]

\* Lines 108-111, the finally clause run when disconnect() returns or raises.
disconnect_finally(s) ==
    [s EXCEPT !.active_client = 0, !.active_device = 0,
              !.disconnect_pending = FALSE]

\* ------------------------------------------------------ after the status
\* _get_status returned: update_device returns the device (leaving the
\* lock), the light methods go on to the COMMAND_DELAY sleep.
AfterStatus(s, t) ==
    IF s.task[t].op = "update_device"
    THEN Return(release(s), t)
    ELSE [s EXCEPT !.task[t].pc = "cmd_sleep", !.task[t].rd = 0]

\* _get_status, lines 116-139: in legacy mode nothing is read and the device
\* is returned whatever the advertisement parse did; otherwise the first of
\* the three reads is started.
get_status(s, t) ==
    IF s.legacy_mode
    THEN AfterStatus(s, t)
    ELSE [s EXCEPT !.task[t].pc = "reading", !.task[t].rd = 1]

\* The code that follows `client = await self._ensure_connection(...)`.
AfterAcquire(s, t) ==
    LET op == s.task[t].op IN
    IF op = "update_device" \/ op \in StatusWriteOps
    THEN get_status(s, t)
    ELSE IF op \in ColorOps \cup KelvinOps
    THEN [s EXCEPT !.task[t].pc = "reading", !.task[t].rd = 0]
    ELSE IF s.task[t].path = "legacy"
    THEN \* LegacyCommandSender.send: one write to the RX characteristic
         [s EXCEPT !.task[t].pc = "writing", !.task[t].n_write = @ + 1]
    ELSE \* _execute_command: await asyncio.sleep(COMMAND_DELAY)
         [s EXCEPT !.task[t].pc = "cmd_sleep"]

\* ---------------------------------------------------- _ensure_connection
ConnectBegin(s, t) ==
    [s EXCEPT !.task[t].pc = "connecting", !.task[t].client = 0,
              !.task[t].n_connect = @ + 1]

\* Variant: a connection marked for teardown by the timer is still reused.
CanReuseIgnoringPending(s, dev) ==
    /\ s.active_client # 0
    /\ s.conn_state[s.active_client] = "up"
    /\ s.active_device # 0
    /\ PeerAddress(s.active_device) = PeerAddress(dev)

\* Variant: is_connected is not looked at.
CanReuseIgnoringLink(s, dev) ==
    /\ s.active_client # 0
    /\ s.active_device # 0
    /\ PeerAddress(s.active_device) = PeerAddress(dev)
    /\ ~s.disconnect_pending

\* Lines 49-53
CanReuse(s, dev) ==
    /\ s.active_client # 0
    /\ s.conn_state[s.active_client] = "up"
    /\ s.active_device # 0
    /\ PeerAddress(s.active_device) = PeerAddress(dev)
    /\ ~s.disconnect_pending

\* Variant: a connection that cannot be reused is replaced without being
\* disconnected first.
ensure_connection_no_teardown(s, t) ==
    LET s0 == [s EXCEPT !.task[t].n_acquire = @ + 1] IN
    IF CanReuse(s0, s0.task[t].dev)
    THEN AfterAcquire([schedule_disconnect(s0) EXCEPT
                           !.task[t].client = s0.active_client], t)
    ELSE ConnectBegin(s0, t)

ensure_connection(s, t) ==
    LET s0 == [s EXCEPT !.task[t].n_acquire = @ + 1] IN
    IF CanReuse(s0, s0.task[t].dev)
    THEN AfterAcquire([schedule_disconnect(s0) EXCEPT
                           !.task[t].client = s0.active_client], t)
    ELSE IF s0.active_client # 0
    THEN disconnect_internal(s0, t, "ensure")
    ELSE ConnectBegin(s0, t)

\* Variant: the method goes into _ensure_connection without taking the lock.
AcquireLockNotTaken(s, t) == ensure_connection(s, t)

\* `async with self._connection_lock:` followed by _ensure_connection
AcquireLock(s, t) ==
    IF s.lock_owner = 0
    THEN ensure_connection([s EXCEPT !.lock_owner = t], t)
    ELSE [s EXCEPT !.lock_waiters = Append(@, t), !.task[t].pc = "wait_lock"]

\* ------------------------------------------------------- error handling
\* update_device line 259
UpdateRaise(s, t) == Raise(s, t, s.task[t].last_exception)

\* Variant: the attempt counter is compared with <=, so the loop sleeps and
\* goes round once more after the last attempt.
UpdateAfterFailOffByOne(s, t) ==
    IF s.task[t].attempt <= s.task[t].max_retries
    THEN [s EXCEPT !.task[t].pc = "backoff", !.task[t].n_backoff = @ + 1]
    ELSE disconnect_internal(s, t, "update_final")

\* update_device lines 252-257
UpdateAfterFail(s, t) ==
    IF s.task[t].attempt < s.task[t].max_retries
    THEN [s EXCEPT !.task[t].pc = "backoff", !.task[t].n_backoff = @ + 1]
    ELSE disconnect_internal(s, t, "update_final")

\* Variant: after the teardown the command is tried again on a new connection.
CommandRetry(s, t) == ensure_connection(s, t)

\* Variant: the exception reaches the caller with the lock still held.
CommandRaiseKeepsLock(s, t) == Raise(s, t, s.task[t].last_exception)

\* The except clause of the control methods: the lock is still held while
\* _disconnect_internal runs, then the exception leaves the `async with`.
CommandRaise(s, t) == Raise(release(s), t, s.task[t].last_exception)

\* update_device lines 244-250: a BleakError tears the connection down
\* before the pause, any other exception does not.
UpdateExcept(s, t, type) ==
    IF type = "BleakError"
    THEN disconnect_internal(s, t, "update_retry")
    ELSE UpdateAfterFail(s, t)

\* An exception of the given type is thrown at the coroutine's current await.
Fail(s, t, type) ==
    LET e == [type |-> type, attempt |-> s.task[t].attempt]
        s1 == [s EXCEPT !.task[t].last_exception = e, !.task[t].rd = 0,
                        !.task[t].client = 0, !.task[t].wlen = -1]
    IN  IF s.task[t].op = "update_device"
        THEN \* outside the `async with`
             UpdateExcept(release(s1), t, type)
        ELSE IF s.task[t].path = "legacy"
        THEN \* set_fan_level / set_both_lights_on legacy branch: no except clause
             Raise(release(s1), t, e)
        ELSE disconnect_internal(s1, t, "cmd_fail")

\* disconnect() line 677
DisconnectReturn(s, t) == [Return(s, t) EXCEPT !.disposed = TRUE]

\* update_device lines 219-225: the legacy branch returns the device
UpdateLegacyReturn(s, t) == Return(s, t)

\* What follows `await self._active_client.disconnect()` and its finally.
AfterDisconnect(s, t) ==
    LET ret == s.task[t].ret
        s0 == [s EXCEPT !.task[t].ret = "none"]
    IN
    CASE ret = "ensure" -> ConnectBegin(s0, t)
      [] ret = "update_retry" -> UpdateAfterFail(s0, t)
      [] ret = "update_final" -> UpdateRaise(s0, t)
      [] ret = "update_legacy" -> UpdateLegacyReturn(s0, t)
      [] ret = "cmd_fail" -> CommandRaise(s0, t)
      [] ret = "disconnect" -> DisconnectReturn(s0, t)
      [] ret = "timer" -> TaskEnd(s0, t)

\* Variant: the legacy branch reads the status over a pooled connection like
\* the modern one.
update_legacy_via_gatt(s, t) ==
    AcquireLock([s EXCEPT !.task[t].path = "legacy"], t)

\* update_device lines 205-225: nothing is awaited in the try block, whether
\* manufacturer data is advertised (args[1]) or not; the finally clause then
\* calls _disconnect_internal() and the device is returned.
update_legacy(s, t) ==
    disconnect_internal([s EXCEPT !.task[t].path = "legacy"], t, "update_legacy")

\* ---------------------------------------------------------------- actions
\* A caller invokes a public method of the client.  The code up to the
\* first suspension runs in the same step.
Invoke(t, op, dev, args, mr) ==
    LET base == [IdleTask EXCEPT !.op = op, !.dev = dev, !.args = args,
                                 !.attempt = 1, !.max_retries = mr]
        s0 == [Cur EXCEPT !.task[t] = base, !.disposed = FALSE]
    IN
    IF op = "disconnect"
    THEN disconnect_internal(s0, t, "disconnect")
    ELSE IF op = "update_device"
    THEN LET s1 == [s0 EXCEPT !.legacy_mode = detect_legacy(dev)] IN
         IF s1.legacy_mode
         THEN update_legacy(s1, t)
         ELSE AcquireLock(s1, t)
    ELSE IF ~ArgsValid(op, args)
    THEN Raise(s0, t, [type |-> "ValueError", attempt |-> 1])
    ELSE IF op \in LegacySenderOps /\ s0.legacy_mode
    THEN AcquireLock([s0 EXCEPT !.task[t].path = "legacy"], t)
    ELSE AcquireLock(s0, t)

\* A finished call resumes its caller before anything else runs.
Quiet == \A t \in Procs : task[t].pc # "done"

\* The control methods and arguments the command caller uses: one method of
\* each shape, with an argument the method accepts.
CallerOps == {"set_fan_level", "set_light_top_brightness", "set_light_top_color"}

CallerArgs(op) ==
    CASE op = "set_fan_level" -> {<<1>>}
      [] op = "set_light_top_brightness" -> {<<50>>}
      [] op = "set_light_top_color" -> {<<50>>}
      [] OTHER -> {<<>>}

\* ble_device.metadata["manufacturer_data"] of a legacy peer: missing or
\* empty, or holding an advertisement.  A modern peer's is never looked at.
AdvData == {"absent", "present"}

UpdateArgs(dev) == IF detect_legacy(dev) THEN {<<a>> : a \in AdvData} ELSE {<<>>}

StartUpdate(t) ==
    /\ Quiet
    /\ Role(t) = "poll"
    /\ task[t].pc = "idle"
    /\ \E dev \in Peers, mr \in 1..MaxAttempts :
          \E args \in UpdateArgs(dev) :
              Apply(Invoke(t, "update_device", dev, args, mr))

StartControl(t) ==
    /\ Quiet
    /\ Role(t) = "service"
    /\ task[t].pc = "idle"
    /\ \E op \in CallerOps, dev \in Peers :
          \E args \in CallerArgs(op) : Apply(Invoke(t, op, dev, args, 0))

\* Arguments outside the range a method accepts: just below and just above.
RangeCheckedOps == ControlOps \ {"set_light_top_on", "set_light_bottom_on", "set_both_lights_on"}

BadArgs(op) ==
    CASE op = "set_fan_level" -> {<<MIN_FAN_LEVEL - 1>>, <<MAX_FAN_LEVEL + 1>>}
      [] op \in {"set_light_top_brightness", "set_light_bottom_brightness",
                 "set_light_top_color", "set_light_bottom_color"} ->
            {<<MIN_PERCENT - 1>>, <<MAX_PERCENT + 1>>}
      [] op \in {"set_both_lights_brightness", "set_both_lights_color"} ->
            {<<MIN_PERCENT - 1, MAX_PERCENT>>, <<MIN_PERCENT, MAX_PERCENT + 1>>}
      [] op \in {"set_light_top_color_kelvin", "set_light_bottom_color_kelvin"} ->
            {<<MIN_KELVIN - 1>>, <<MAX_KELVIN + 1>>}
      [] op = "set_both_lights_color_kelvin" ->
            {<<MIN_KELVIN - 1, MAX_KELVIN>>, <<MIN_KELVIN, MAX_KELVIN + 1>>}
      [] OTHER -> {}

\* The service caller passes an argument outside the accepted range.
StartOutOfRange(t) ==
    /\ Quiet
    /\ Role(t) = "service"
    /\ task[t].pc = "idle"
    /\ \E op \in RangeCheckedOps, dev \in Peers :
          \E args \in BadArgs(op) : Apply(Invoke(t, op, dev, args, 0))

StartDisconnect(t) ==
    /\ Quiet
    /\ Role(t) = "service"
    /\ task[t].pc = "idle"
    /\ Apply(Invoke(t, "disconnect", 0, <<>>, 0))

\* The caller has the result and the coroutine object is dropped.
Resume(t) ==
    /\ task[t].pc = "done"
    /\ Apply(TaskEnd(Cur, t))

\* A waiter is woken with the lock and goes on into _ensure_connection.
AcquireResume(t) ==
    /\ Quiet
    /\ task[t].pc = "wait_lock"
    /\ lock_owner = t
    /\ Apply(ensure_connection(Cur, t))

FreshConn == CHOOSE c \in Conns : conn_state[c] = "unused" /\
                 \A d \in Conns : conn_state[d] = "unused" => c <= d

\* establish_connection returns a client: lines 69-77
ConnectOk(t) ==
    /\ Quiet
    /\ task[t].pc = "connecting"
    /\ \E c \in Conns : conn_state[c] = "unused"
    /\ LET c == FreshConn
           s1 == [Cur EXCEPT !.conn_state[c] = "up",
                             !.active_client = c,
                             !.active_device = task[t].dev,
                             !.disconnect_pending = FALSE]
       IN Apply(AfterAcquire([schedule_disconnect(s1) EXCEPT !.task[t].client = c], t))

ConnectFail(t) ==
    /\ Quiet
    /\ task[t].pc = "connecting"
    /\ Apply(Fail(Cur, t, "BleakError"))

\* client.disconnect() returns: the link is closed
DisconnectOk(t) ==
    /\ Quiet
    /\ task[t].pc = "disconnecting"
    /\ Apply(AfterDisconnect(disconnect_finally(
                 [Cur EXCEPT !.conn_state[task[t].client] = "closed",
                             !.task[t].client = 0]), t))

\* client.disconnect() raises: the exception is logged, the link is as it was
DisconnectFail(t) ==
    /\ Quiet
    /\ task[t].pc = "disconnecting"
    /\ Apply(AfterDisconnect(disconnect_finally(
                 [Cur EXCEPT !.task[t].client = 0]), t))

\* Bytes the peer may return for the color characteristic: nothing, the
\* eight bytes the parser needs, a full frame.
ReadLengths == {0, 8, 31}

\* Length of the frame a control method passes to write_gatt_char on the
\* modern path.  _execute_command has validated its command (line 268); the
\* light methods build theirs from the template; the color methods write
\* back bytes(new_colors), as long as what they read (lines 518-523).
FrameLength(op, readlen) ==
    IF op \in ExecuteCommandOps
    THEN COMMAND_LENGTH
    ELSE IF op \in StatusWriteOps
    THEN Len(create_light_brightness_command(<<>>, <<>>).frame)
    ELSE readlen

BeginWrite(s, t, readlen) ==
    [s EXCEPT !.task[t].pc = "writing", !.task[t].rd = 0,
              !.task[t].n_write = @ + 1,
              !.task[t].wlen = FrameLength(s.task[t].op, readlen)]

\* read_gatt_char returns bytes: one of the three status reads, or the color
\* bytes a color method reads, modifies and writes back.
ReadOk(t) ==
    /\ Quiet
    /\ task[t].pc = "reading"
    /\ conn_state[task[t].client] = "up"
    /\ \E n \in (IF task[t].rd = 0 THEN ReadLengths ELSE {0}) :
          Apply(IF task[t].rd = 0
                THEN BeginWrite(Cur, t, n)
                ELSE IF task[t].rd < 3
                THEN [Cur EXCEPT !.task[t].rd = @ + 1]
                ELSE AfterStatus(Cur, t))

\* the third read returns, but parse_status raises on a short status buffer
ParseFail(t) ==
    /\ Quiet
    /\ task[t].pc = "reading"
    /\ task[t].rd = 3
    /\ conn_state[task[t].client] = "up"
    /\ Apply(Fail(Cur, t, "IndexError"))

ReadFail(t) ==
    /\ Quiet
    /\ task[t].pc = "reading"
    /\ Apply(Fail(Cur, t, "BleakError"))

WriteOk(t) ==
    /\ Quiet
    /\ task[t].pc = "writing"
    /\ conn_state[task[t].client] = "up"
    /\ Apply(Return(release(Cur), t))

WriteFail(t) ==
    /\ Quiet
    /\ task[t].pc = "writing"
    /\ Apply(Fail(Cur, t, "BleakError"))

\* asyncio.sleep(COMMAND_DELAY) is over; _execute_command lines 278-289
CommandDelayDone(t) ==
    /\ Quiet
    /\ task[t].pc = "cmd_sleep"
    /\ Apply(IF task[t].op \in ExecuteCommandOps /\ legacy_mode
             THEN Fail(Cur, t, "NotImplementedError")
             ELSE BeginWrite(Cur, t, 0))

\* asyncio.sleep(1) is over: the next attempt of update_device
BackoffDone(t) ==
    /\ Quiet
    /\ task[t].pc = "backoff"
    /\ Apply(AcquireLock([Cur EXCEPT !.task[t].attempt = @ + 1], t))

\* The event loop runs a due timer: disconnect_callback, lines 84-88
TimerFire ==
    /\ Quiet
    /\ loop_timers > 0
    /\ connection_timeout_handle = "armed" => timer_remaining = 0
    /\ LET s1 == [Cur EXCEPT !.loop_timers = @ - 1,
                             !.handle = IF @ = "armed" THEN "dead" ELSE @]
       IN IF disconnect_pending
          THEN Apply(s1)
          ELSE \E u \in Teardowns :
                 /\ task[u].pc = "idle"
                 /\ Apply([s1 EXCEPT !.disconnect_pending = TRUE,
                                     !.task[u] = [IdleTask EXCEPT
                                         !.pc = "scheduled",
                                         !.op = "disconnect_callback"]])

\* The task made by the callback gets to run _disconnect_internal
TeardownRun(u) ==
    /\ Quiet
    /\ task[u].pc = "scheduled"
    /\ Apply(disconnect_internal(Cur, u, "timer"))

\* Time passes: the rest of the idle window elapses.  Nothing in the client
\* reads how much of the window is left, so the window is passed in one step.
Tick ==
    /\ Quiet
    /\ connection_timeout_handle = "armed"
    /\ timer_remaining > 0
    /\ Apply([Cur EXCEPT !.remaining = 0])

\* The radio link of a connection is lost
LinkDrop(c) ==
    /\ Quiet
    /\ conn_state[c] = "up"
    /\ Apply([Cur EXCEPT !.conn_state[c] = "down"])

Step ==
    \/ \E t \in Clients : StartUpdate(t)
    \/ \E t \in Clients : StartControl(t)
    \/ \E t \in Clients : StartOutOfRange(t)
    \/ \E t \in Clients : StartDisconnect(t)
    \/ \E t \in Clients : AcquireResume(t)
    \/ \E t \in Clients : ConnectOk(t)
    \/ \E t \in Clients : ConnectFail(t)
    \/ \E t \in Procs : DisconnectOk(t)
    \/ \E t \in Procs : DisconnectFail(t)
    \/ \E t \in Clients : ReadOk(t)
    \/ \E t \in Clients : ParseFail(t)
    \/ \E t \in Clients : ReadFail(t)
    \/ \E t \in Clients : WriteOk(t)
    \/ \E t \in Clients : WriteFail(t)
    \/ \E t \in Clients : CommandDelayDone(t)
    \/ \E t \in Clients : BackoffDone(t)
    \/ TimerFire
    \/ \E u \in Teardowns : TeardownRun(u)
    \/ Tick
    \/ \E c \in Conns : LinkDrop(c)

Next ==
    \/ Step
    \/ \E t \in Clients : Resume(t)

Spec == Init /\ [][Next]_vars

\* ------------------------------------------------- smaller specifications
\* The poll alone, with the idle timer and the radio link.
NextRetry ==
    \/ \E t \in Clients : StartUpdate(t)
    \/ \E t \in Clients : ConnectOk(t)
    \/ \E t \in Clients : ConnectFail(t)
    \/ \E t \in Procs : DisconnectOk(t)
    \/ \E t \in Procs : DisconnectFail(t)
    \/ \E t \in Clients : ReadOk(t)
    \/ \E t \in Clients : ParseFail(t)
    \/ \E t \in Clients : ReadFail(t)
    \/ \E t \in Clients : BackoffDone(t)
    \/ TimerFire
    \/ \E u \in Teardowns : TeardownRun(u)
    \/ Tick
    \/ \E c \in Conns : LinkDrop(c)
    \/ \E t \in Clients : Resume(t)

SpecRetry == Init /\ [][NextRetry]_vars

\* The poll against disconnect() and the idle timer: the service caller only
\* calls disconnect().
StepPoll ==
    \/ \E t \in Clients : StartUpdate(t)
    \/ \E t \in Clients : StartDisconnect(t)
    \/ \E t \in Clients : ConnectOk(t)
    \/ \E t \in Clients : ConnectFail(t)
    \/ \E t \in Procs : DisconnectOk(t)
    \/ \E t \in Procs : DisconnectFail(t)
    \/ \E t \in Clients : ReadOk(t)
    \/ \E t \in Clients : ParseFail(t)
    \/ \E t \in Clients : ReadFail(t)
    \/ \E t \in Clients : BackoffDone(t)
    \/ TimerFire
    \/ \E u \in Teardowns : TeardownRun(u)
    \/ Tick
    \/ \E c \in Conns : LinkDrop(c)

NextPoll ==
    \/ StepPoll
    \/ \E t \in Clients : Resume(t)

SpecPoll == Init /\ [][NextPoll]_vars

\* The service caller against the idle timer, with no poll running.  A poll
\* that ran earlier has left _legacy_mode set or not.
InitService ==
    /\ active_client = 0
    /\ active_device = 0
    /\ connection_timeout_handle = "None"
    /\ loop_timers = 0
    /\ timer_remaining = 0
    /\ disconnect_pending = FALSE
    /\ legacy_mode \in BOOLEAN
    /\ lock_owner = 0
    /\ lock_waiters = <<>>
    /\ conn_state = [c \in Conns |-> "unused"]
    /\ task = [t \in Procs |-> IdleTask]
    /\ disposed = FALSE
    /\ CoordinatorInit
    /\ calc = NoCalc

StepService ==
    \/ \E t \in Clients : StartControl(t)
    \/ \E t \in Clients : StartDisconnect(t)
    \/ \E t \in Clients : ConnectOk(t)
    \/ \E t \in Clients : ConnectFail(t)
    \/ \E t \in Procs : DisconnectOk(t)
    \/ \E t \in Procs : DisconnectFail(t)
    \/ \E t \in Clients : ReadOk(t)
    \/ \E t \in Clients : ParseFail(t)
    \/ \E t \in Clients : ReadFail(t)
    \/ \E t \in Clients : WriteOk(t)
    \/ \E t \in Clients : WriteFail(t)
    \/ \E t \in Clients : CommandDelayDone(t)
    \/ TimerFire
    \/ \E u \in Teardowns : TeardownRun(u)
    \/ Tick
    \/ \E c \in Conns : LinkDrop(c)

NextService ==
    \/ StepService
    \/ \E t \in Clients : Resume(t)

SpecService == InitService /\ [][NextService]_vars

\* The same, with calls whose argument is out of range.
NextRange ==
    \/ NextService
    \/ \E t \in Clients : StartOutOfRange(t)

SpecRange == InitService /\ [][NextRange]_vars

\* The poll and the command caller contending for the lock, each call made
\* to the end; the idle timer stays armed but does not run down.
NextOrder ==
    \/ \E t \in Clients : StartUpdate(t)
    \/ \E t \in Clients : StartControl(t)
    \/ \E t \in Clients : AcquireResume(t)
    \/ \E t \in Clients : ConnectOk(t)
    \/ \E t \in Clients : ConnectFail(t)
    \/ \E t \in Procs : DisconnectOk(t)
    \/ \E t \in Clients : ReadOk(t)
    \/ \E t \in Clients : ReadFail(t)
    \/ \E t \in Clients : WriteOk(t)
    \/ \E t \in Clients : WriteFail(t)
    \/ \E t \in Clients : CommandDelayDone(t)
    \/ \E t \in Clients : BackoffDone(t)
    \/ \E t \in Clients : Resume(t)

SpecOrder == Init /\ [][NextOrder]_vars

\* The poll and the idle timer with a transport whose disconnect() always
\* succeeds and whose links are not lost: reads and connects may still fail.
NextIdle ==
    \/ \E t \in Clients : StartUpdate(t)
    \/ \E t \in Clients : ConnectOk(t)
    \/ \E t \in Clients : ConnectFail(t)
    \/ \E t \in Procs : DisconnectOk(t)
    \/ \E t \in Clients : ReadOk(t)
    \/ \E t \in Clients : ReadFail(t)
    \/ \E t \in Clients : BackoffDone(t)
    \/ TimerFire
    \/ \E u \in Teardowns : TeardownRun(u)
    \/ Tick
    \/ \E t \in Clients : Resume(t)

SpecIdle == Init /\ [][NextIdle]_vars

\* The poll and the command caller contending for the lock, with status
\* buffers that may be too short to decode.
NextDecode ==
    \/ NextOrder
    \/ \E t \in Clients : ParseFail(t)

SpecDecode == Init /\ [][NextDecode]_vars

\* ------------------------------------------------------- the coordinator
\* _async_update_data, one poll after the other as the update coordinator
\* schedules them.  What update_device does is left open here: it returns
\* some status or raises.
MaxFailures == 5      \* polls that may fail in a row

max_consecutive_failures == 3

Statuses == {"status_a", "status_b", "status_c"}

UpdateErrors == {"BleakError", "Exception"}

clientVars == <<active_client, active_device, connection_timeout_handle,
                loop_timers, timer_remaining, disconnect_pending, legacy_mode,
                lock_owner, lock_waiters, conn_state, task, disposed>>

\* Variant: the threshold is compared with >.
TooManyFailuresStrict(n) == n > max_consecutive_failures

\* Lines 67 and 87
TooManyFailures(n) == n >= max_consecutive_failures

\* Line 49: await self.client.update_device(self.ble_device)
PollStart ==
    /\ poll.pc = "idle"
    /\ poll' = [IdlePoll EXCEPT !.pc = "updating", !.before = data,
                                !.streak = poll.streak,
                                !.last_update_success = poll.last_update_success]
    /\ UNCHANGED <<consecutive_failures, data, calc>>
    /\ UNCHANGED <<clientVars, command>>

\* Lines 50-58: update_device returned a status.
PollUpdateOk ==
    /\ poll.pc = "updating"
    /\ \E st \in Statuses :
          poll' = [poll EXCEPT !.pc = "done", !.failed = FALSE, !.streak = 0,
                               !.outcome = "return", !.value = st]
    /\ consecutive_failures' = 0
    /\ UNCHANGED <<data, calc>>
    /\ UNCHANGED <<clientVars, command>>

\* Lines 60-98: update_device raised; both except clauses do the same.
PollUpdateFail ==
    /\ poll.pc = "updating"
    /\ consecutive_failures < MaxFailures
    /\ \E e \in UpdateErrors :
          LET n == consecutive_failures + 1
              p == [poll EXCEPT !.pc = "done", !.failed = TRUE,
                                !.error = e, !.streak = @ + 1]
          IN  /\ consecutive_failures' = n
              /\ poll' = IF TooManyFailures(n)
                         THEN [p EXCEPT !.outcome = "UpdateFailed"]
                         ELSE IF data # "None"
                         THEN [p EXCEPT !.outcome = "return", !.value = data]
                         ELSE [p EXCEPT !.outcome = "UpdateFailed"]
    /\ UNCHANGED <<data, calc>>
    /\ UNCHANGED <<clientVars, command>>

\* The update coordinator takes the outcome: a returned status becomes
\* self.data, UpdateFailed leaves self.data as it is and marks the update
\* as failed.
PollFinish ==
    /\ poll.pc = "done"
    /\ data' = IF poll.outcome = "return" THEN poll.value ELSE data
    /\ poll' = [poll EXCEPT !.pc = "idle",
                            !.last_update_success = (poll.outcome = "return")]
    /\ UNCHANGED <<consecutive_failures, calc>>
    /\ UNCHANGED <<clientVars, command>>

NextCoordinator ==
    \/ PollStart
    \/ PollUpdateOk
    \/ PollUpdateFail
    \/ PollFinish

SpecCoordinator == Init /\ [][NextCoordinator]_vars

\* ------------------------------------------------ the command callers
\* _execute_command_optimized, coordinator.py lines 100-120.  The service
\* coroutine of the client model runs the control method of whichever
\* caller holds the coordinator's lock.
ServiceTask == CHOOSE t \in Clients : Role(t) = "service"

\* A service call enters _execute_command_optimized: with the coordinator's
\* lock free it goes on into the control method (lines 104-105), up to that
\* method's first suspension; otherwise it queues for the lock.
CommandSubmit(c) ==
    /\ Quiet
    /\ command.pc[c] = "idle"
    /\ IF command.owner = 0
       THEN /\ \E op \in CallerOps :
                 \E args \in CallerArgs(op) :
                     ApplyClient(Invoke(ServiceTask, op, command.ble_device, args, 0))
            /\ command' = [command EXCEPT !.owner = c, !.pc[c] = "calling"]
       ELSE /\ command' = [command EXCEPT !.waiters = Append(@, c),
                                          !.pc[c] = "waiting"]
            /\ UNCHANGED clientVars
    /\ UNCHANGED <<consecutive_failures, data, poll, calc>>

\* A waiter that was handed the coordinator's lock is run and enters the
\* control method.
CommandCall(c) ==
    /\ Quiet
    /\ command.owner = c
    /\ command.pc[c] = "locked"
    /\ \E op \in CallerOps :
          \E args \in CallerArgs(op) :
              ApplyClient(Invoke(ServiceTask, op, command.ble_device, args, 0))
    /\ command' = [command EXCEPT !.pc[c] = "calling"]
    /\ UNCHANGED <<consecutive_failures, data, poll, calc>>

\* Leaving the `async with` of line 104, by return or by exception: the
\* lock passes to the first waiter.  After a return the refresh of lines
\* 109-111 follows when _immediate_refresh is set; an exception is logged
\* and raised again (lines 115-120).
CommandLockExit(cmd, c, ok) ==
    LET after == IF ok /\ cmd.immediate_refresh THEN "refresh" ELSE "idle" IN
    IF cmd.waiters = <<>>
    THEN [cmd EXCEPT !.owner = 0, !.pc[c] = after]
    ELSE [cmd EXCEPT !.owner = Head(cmd.waiters),
                     !.waiters = Tail(cmd.waiters),
                     !.pc[Head(cmd.waiters)] = "locked",
                     !.pc[c] = after]

\* The control method returns or raises into _execute_command_optimized.
CommandReturn(c) ==
    /\ command.pc[c] = "calling"
    /\ task[ServiceTask].pc = "done"
    /\ ApplyClient(TaskEnd(Cur, ServiceTask))
    /\ command' = CommandLockExit(command, c, task[ServiceTask].result.kind = "ok")
    /\ UNCHANGED <<consecutive_failures, data, poll, calc>>

\* `await self.async_request_refresh()` returns: the refresh itself is a
\* poll, run by the update coordinator outside this lock.
RefreshDone(c) ==
    /\ command.pc[c] = "refresh"
    /\ command' = [command EXCEPT !.pc[c] = "idle"]
    /\ UNCHANGED <<consecutive_failures, data, poll, calc>>
    /\ UNCHANGED clientVars

\* _async_update_data line 50: update_device(self.ble_device), with the
\* default max_retries of 2
PollCall(t) ==
    /\ Quiet
    /\ Role(t) = "poll"
    /\ task[t].pc = "idle"
    /\ \E args \in UpdateArgs(command.ble_device) :
          Apply(Invoke(t, "update_device", command.ble_device, args, 2))

PollResume == \E t \in Clients : Role(t) = "poll" /\ Resume(t)

\* One coordinator, set up for a modern or a legacy peer, with
\* _immediate_refresh as constructed or switched off by the service.
InitLive ==
    /\ ClientInit
    /\ consecutive_failures = 0
    /\ data = "None"
    /\ poll = IdlePoll
    /\ calc = NoCalc
    /\ \E d \in Peers, r \in BOOLEAN :
          command = [NoCommands EXCEPT !.ble_device = d, !.immediate_refresh = r]

\* The poll and the command callers, with every exit of the client's
\* methods: failed connects, reads and writes included.
NextLive ==
    \/ \E c \in Callers : CommandSubmit(c)
    \/ \E c \in Callers : CommandCall(c)
    \/ \E c \in Callers : CommandReturn(c)
    \/ \E c \in Callers : RefreshDone(c)
    \/ \E t \in Clients : PollCall(t)
    \/ PollResume
    \/ \E t \in Clients : AcquireResume(t)
    \/ \E t \in Clients : ConnectOk(t)
    \/ \E t \in Clients : ConnectFail(t)
    \/ \E t \in Procs : DisconnectOk(t)
    \/ \E t \in Procs : DisconnectFail(t)
    \/ \E t \in Clients : ReadOk(t)
    \/ \E t \in Clients : ParseFail(t)
    \/ \E t \in Clients : ReadFail(t)
    \/ \E t \in Clients : WriteOk(t)
    \/ \E t \in Clients : WriteFail(t)
    \/ \E t \in Clients : CommandDelayDone(t)
    \/ \E t \in Clients : BackoffDone(t)

\* The event loop runs what is ready: a finished poll resumes its caller,
\* and a control method that returned or raised resumes
\* _execute_command_optimized.
FairLive ==
    /\ WF_vars(PollResume)
    /\ \A c \in Callers : WF_vars(CommandReturn(c))

SpecLive == InitLive /\ [][NextLive]_vars /\ FairLive

\* ------------------------------------------------- the device state model
\* models.py: the dataclass with its defaults, and __post_init__.
Clamp(lo, x, hi) == IF x < lo THEN lo ELSE IF x > hi THEN hi ELSE x

MAX_STATUS_FAN_LEVEL == 4

DefaultDevice ==
    [light_top_on |-> FALSE, light_bottom_on |-> FALSE,
     light_top_brightness |-> 0, light_bottom_brightness |-> 0,
     light_top_color |-> 0, light_bottom_color |-> 0,
     fan_level |-> 0, fan_postrun_active |-> FALSE]

\* Variant: every field but fan_level is clamped.
post_init_keeps_fan_level(d) ==
    [d EXCEPT !.light_top_brightness = Clamp(0, @, 100),
              !.light_bottom_brightness = Clamp(0, @, 100),
              !.light_top_color = Clamp(0, @, 100),
              !.light_bottom_color = Clamp(0, @, 100)]

\* __post_init__, lines 23-29
post_init(d) ==
    [d EXCEPT !.light_top_brightness = Clamp(0, @, 100),
              !.light_bottom_brightness = Clamp(0, @, 100),
              !.light_top_color = Clamp(0, @, 100),
              !.light_bottom_color = Clamp(0, @, 100),
              !.fan_level = Clamp(0, @, MAX_STATUS_FAN_LEVEL)]

\* BerbelDevice(**fields): the fields given override the defaults, then
\* __post_init__ runs.
BerbelDevice(fields) ==
    post_init([k \in DOMAIN DefaultDevice |->
                  IF k \in DOMAIN fields THEN fields[k] ELSE DefaultDevice[k]])

\* ------------------------------------------------------ the status parser
\* parser.py.  The byte constants are those of the class docstring.
STATUS_FAN_LEVEL_1_BYTE == 0
STATUS_FAN_LEVEL_2_4_BYTE == 1
STATUS_LIGHT_TOP_BYTE == 2
STATUS_LIGHT_BOTTOM_BYTE == 4
STATUS_POSTRUN_BYTE == 5
BRIGHTNESS_BOTTOM_BYTE == 4
BRIGHTNESS_TOP_BYTE == 5
COLOR_BOTTOM_BYTE == 6
COLOR_TOP_BYTE == 7
FAN_LEVEL_1 == 16
FAN_LEVEL_2 == 16
FAN_LEVEL_3 == 24
FAN_LEVEL_4 == 25
LIGHT_ON_MASK == 16
POSTRUN_MASK == 144

\* b[i] of Python; the caller makes sure i < len(b) or gets IndexError.
At(b, i) == b[i + 1]

Max(a, b) == IF a >= b THEN a ELSE b

\* x & m for bytes
RECURSIVE BitAnd(_, _)

BitAnd(x, m) ==
    IF x = 0 \/ m = 0
    THEN 0
    ELSE (x % 2) * (m % 2) + 2 * BitAnd(x \div 2, m \div 2)

\* Variant: the percentage is rounded to the nearest integer.
ByteToPercentRounded(b) == IntDiv(b * 200 + 255, 510)

\* int(b / 255 * 100) for a byte b: the double quotient and product never
\* reach the next integer, so the result is the floor of b * 100 / 255.
ByteToPercent(b) == IntDiv(b * 100, 255)

\* The highest index parse_status reads from the status bytes.
StatusIndexError(status) == Len(status) <= STATUS_POSTRUN_BYTE

parse_light_status(status) ==
    <<BitAnd(At(status, STATUS_LIGHT_TOP_BYTE), LIGHT_ON_MASK) # 0,
      BitAnd(At(status, STATUS_LIGHT_BOTTOM_BYTE), LIGHT_ON_MASK) # 0>>

\* Variant: byte 1 is compared first, byte 0 last.
parse_fan_level_byte_1_first(status) ==
    IF At(status, STATUS_FAN_LEVEL_2_4_BYTE) = FAN_LEVEL_2 THEN 2
    ELSE IF At(status, STATUS_FAN_LEVEL_2_4_BYTE) = FAN_LEVEL_3 THEN 3
    ELSE IF At(status, STATUS_FAN_LEVEL_2_4_BYTE) = FAN_LEVEL_4 THEN 4
    ELSE IF At(status, STATUS_FAN_LEVEL_1_BYTE) = FAN_LEVEL_1 THEN 1
    ELSE 0

parse_fan_level(status) ==
    IF At(status, STATUS_FAN_LEVEL_1_BYTE) = FAN_LEVEL_1 THEN 1
    ELSE IF At(status, STATUS_FAN_LEVEL_2_4_BYTE) = FAN_LEVEL_2 THEN 2
    ELSE IF At(status, STATUS_FAN_LEVEL_2_4_BYTE) = FAN_LEVEL_3 THEN 3
    ELSE IF At(status, STATUS_FAN_LEVEL_2_4_BYTE) = FAN_LEVEL_4 THEN 4
    ELSE 0

parse_postrun_status(status) ==
    BitAnd(At(status, STATUS_POSTRUN_BYTE), POSTRUN_MASK) = POSTRUN_MASK

\* <<bottom, top>>
parse_brightness(brightness) ==
    IF Len(brightness) >= Max(BRIGHTNESS_BOTTOM_BYTE, BRIGHTNESS_TOP_BYTE) + 1
    THEN <<ByteToPercent(At(brightness, BRIGHTNESS_BOTTOM_BYTE)),
           ByteToPercent(At(brightness, BRIGHTNESS_TOP_BYTE))>>
    ELSE <<0, 0>>

\* <<bottom, top>>
parse_colors(colors) ==
    IF Len(colors) >= Max(COLOR_BOTTOM_BYTE, COLOR_TOP_BYTE) + 1
    THEN <<ByteToPercent(At(colors, COLOR_BOTTOM_BYTE)),
           ByteToPercent(At(colors, COLOR_TOP_BYTE))>>
    ELSE <<0, 0>>

\* parse_status, lines 92-109, for status bytes long enough
parse_status(status, brightness, colors) ==
    [light_top_on |-> parse_light_status(status)[1],
     light_bottom_on |-> parse_light_status(status)[2],
     light_top_brightness |-> parse_brightness(brightness)[2],
     light_bottom_brightness |-> parse_brightness(brightness)[1],
     light_top_color |-> parse_colors(colors)[2],
     light_bottom_color |-> parse_colors(colors)[1],
     fan_level |-> parse_fan_level(status),
     fan_postrun_active |-> parse_postrun_status(status)]

\* _get_status lines 146-158 on a new BerbelDevice: setattr of every parsed
\* field, without __post_init__.
status_device(status, brightness, colors) ==
    LET parsed == parse_status(status, brightness, colors)
        device == BerbelDevice(<<>>)
    IN  [k \in DOMAIN device |-> parsed[k]]

\* legacy_parser.py lines 55-59 and 95-106 for the numeric fields: the fan
\* byte capped at 3, brightness and color unknown.
legacy_device(fan_byte) ==
    LET device == BerbelDevice(<<>>) IN
    [device EXCEPT !.fan_level = IF fan_byte > 3 THEN 3 ELSE fan_byte,
                   !.light_top_brightness = 0, !.light_bottom_brightness = 0,
                   !.light_top_color = 0, !.light_bottom_color = 0]

\* Inputs: field values given to the constructor, and bytes read.
RawPercent == {-1, 50, 150}
RawColor == {-1, 100, 101}
RawFan == {-1, 0, 4, 7}
Bytes == 0..255
ByteSamples == {0, 128, 255}

ConstructorInputs ==
    [fan_level : RawFan, light_top_brightness : RawPercent,
     light_bottom_brightness : RawPercent, light_top_color : RawColor,
     light_bottom_color : RawColor]

StatusSamples ==
    {<<>>} \cup
    {<<b0, b1, b2, 0, LIGHT_ON_MASK - b2, b5>> :
        b0 \in {0, FAN_LEVEL_1}, b1 \in {7, FAN_LEVEL_2, FAN_LEVEL_3, FAN_LEVEL_4},
        b2 \in {0, LIGHT_ON_MASK}, b5 \in {0, POSTRUN_MASK}}

BrightnessSamples ==
    {<<>>, Zeros(5)} \cup
    {Zeros(4) \o <<x, y>> : x \in Bytes, y \in {0, 191, 255}}

ColorSamples ==
    {Zeros(7)} \cup
    {Zeros(6) \o <<x, y>> \o Zeros(23) : x \in ByteSamples, y \in ByteSamples}

StatusInputs ==
    [status : StatusSamples, brightness : {Zeros(6)}, colors : {Zeros(8)}]
    \cup [status : {Zeros(6)}, brightness : BrightnessSamples, colors : ColorSamples]

InitStatus ==
    /\ ClientInit
    /\ CoordinatorInit
    /\ calc \in [fn : {"BerbelDevice"}, in : ConstructorInputs, done : {FALSE},
                  exc : {"None"}, out : {DefaultDevice}]
            \cup [fn : {"get_status"}, in : StatusInputs, done : {FALSE},
                   exc : {"None"}, out : {DefaultDevice}]
            \cup [fn : {"legacy"}, in : Bytes, done : {FALSE},
                   exc : {"None"}, out : {DefaultDevice}]

\* BerbelDevice(fan_level=…, light_top_brightness=…, …)
ConstructDevice ==
    /\ calc.fn = "BerbelDevice" /\ ~calc.done
    /\ calc' = [calc EXCEPT !.done = TRUE, !.out = BerbelDevice(calc.in)]
    /\ UNCHANGED <<consecutive_failures, data, poll>>
    /\ UNCHANGED <<clientVars, command>>

\* _get_status after the three reads: parse_status raises IndexError on
\* status bytes that are too short, otherwise the device is returned.
StatusRead ==
    /\ calc.fn = "get_status" /\ ~calc.done
    /\ calc' = IF StatusIndexError(calc.in.status)
               THEN [calc EXCEPT !.done = TRUE, !.exc = "IndexError"]
               ELSE [calc EXCEPT !.done = TRUE,
                                 !.out = status_device(calc.in.status,
                                                       calc.in.brightness,
                                                       calc.in.colors)]
    /\ UNCHANGED <<consecutive_failures, data, poll>>
    /\ UNCHANGED <<clientVars, command>>

\* update_device on a legacy peer with an advertisement long enough
LegacyRead ==
    /\ calc.fn = "legacy" /\ ~calc.done
    /\ calc' = [calc EXCEPT !.done = TRUE, !.out = legacy_device(calc.in)]
    /\ UNCHANGED <<consecutive_failures, data, poll>>
    /\ UNCHANGED <<clientVars, command>>

NextStatus ==
    \/ ConstructDevice
    \/ StatusRead
    \/ LegacyRead

SpecStatus == InitStatus /\ [][NextStatus]_vars

\* --------------------------------------------------- brightness commands
\* int(p * 2.55) for p in 0..100, in the double arithmetic Python uses: 2.55
\* is stored as a binary fraction just below 2.55.  The product is rounded
\* to a double whose integer part is that of p * 255 / 100 for every p but
\* 100, where 100 * 2.55 is 254.99999999999997.
PercentToByte(p) == IF p = 100 THEN 254 ELSE IntDiv(p * 255, 100)

\* commands.py lines 33-57
create_light_brightness_command_from_percentage(top_percentage, bottom_percentage) ==
    IF top_percentage # <<>> /\ ~InRange(0, top_percentage[1], 100)
    THEN ValueErrorResult
    ELSE IF bottom_percentage # <<>> /\ ~InRange(0, bottom_percentage[1], 100)
    THEN ValueErrorResult
    ELSE create_light_brightness_command(
             IF top_percentage # <<>> THEN <<PercentToByte(top_percentage[1])>> ELSE <<>>,
             IF bottom_percentage # <<>> THEN <<PercentToByte(bottom_percentage[1])>> ELSE <<>>)

\* Arguments: every percentage from below 0 to above 100 on one side, with
\* an omitted or a sample percentage on the other.
PercentArgs == {<<p>> : p \in -1..101}
PercentArgSamples == {<<>>, <<0>>, <<50>>, <<100>>, <<101>>}

BrightnessInputs ==
    [top : PercentArgs \cup {<<>>}, bottom : PercentArgSamples]
    \cup [top : PercentArgSamples, bottom : PercentArgs \cup {<<>>}]

InitBrightness ==
    /\ ClientInit
    /\ CoordinatorInit
    /\ calc \in [fn : {"brightness_command"}, in : BrightnessInputs,
                  done : {FALSE}, out : {ValueErrorResult},
                  decoded : {<<>>}]

\* create_light_brightness_command_from_percentage(top, bottom)
EncodeBrightness ==
    /\ calc.fn = "brightness_command" /\ ~calc.done
    /\ calc' = [calc EXCEPT
                   !.done = TRUE,
                   !.out = create_light_brightness_command_from_percentage(
                               calc.in.top, calc.in.bottom)]
    /\ UNCHANGED <<consecutive_failures, data, poll>>
    /\ UNCHANGED <<clientVars, command>>

\* The frame written is read back as the brightness bytes and decoded by
\* the status parser.
DecodeBrightness ==
    /\ calc.fn = "brightness_command" /\ calc.done
    /\ calc.out.exc = "None" /\ calc.decoded = <<>>
    /\ calc' = [calc EXCEPT !.decoded = parse_brightness(calc.out.frame)]
    /\ UNCHANGED <<consecutive_failures, data, poll>>
    /\ UNCHANGED <<clientVars, command>>

NextBrightness ==
    \/ EncodeBrightness
    \/ DecodeBrightness

SpecBrightness == InitBrightness /\ [][NextBrightness]_vars

\* ------------------------------------------------------ the light methods
\* set_light_top_on / set_light_bottom_on (client.py 346-356, 376-386) and
\* set_light_top_brightness / set_light_bottom_brightness (433-442, 468-477)
\* between _get_status and the write: the other light's percentage is taken
\* from the device just read, 0 when that light is off, and the frame is
\* built from the two percentages.
light_command(op, arg, device) ==
    LET current_bottom == IF device.light_bottom_on
                          THEN device.light_bottom_brightness ELSE 0
        current_top == IF device.light_top_on
                       THEN device.light_top_brightness ELSE 0
    IN  CASE op = "set_light_top_on" ->
               create_light_brightness_command_from_percentage(
                   <<IF arg THEN 100 ELSE 0>>, <<current_bottom>>)
          [] op = "set_light_bottom_on" ->
               create_light_brightness_command_from_percentage(
                   <<current_top>>, <<IF arg THEN 100 ELSE 0>>)
          [] op = "set_light_top_brightness" ->
               create_light_brightness_command_from_percentage(
                   <<arg>>, <<current_bottom>>)
          [] op = "set_light_bottom_brightness" ->
               create_light_brightness_command_from_percentage(
                   <<current_top>>, <<arg>>)

\* The light a method leaves alone.
OtherLight(op) ==
    IF op \in {"set_light_top_on", "set_light_top_brightness"} THEN "bottom" ELSE "top"

LightArgs(op) ==
    IF op \in {"set_light_top_on", "set_light_bottom_on"} THEN BOOLEAN ELSE {0, 50, 100}

\* What the peer reports: the other light on or off at brightness byte b,
\* the light the method changes off at brightness byte 0.
LightStatusBytes(other, on) ==
    [i \in 1..9 |->
        IF on /\ i = 1 + (IF other = "top" THEN STATUS_LIGHT_TOP_BYTE
                                            ELSE STATUS_LIGHT_BOTTOM_BYTE)
        THEN LIGHT_ON_MASK ELSE 0]

LightBrightnessBytes(other, b) ==
    [i \in 1..COMMAND_LENGTH |->
        IF i = 1 + (IF other = "top" THEN BRIGHTNESS_TOP_BYTE
                                     ELSE BRIGHTNESS_BOTTOM_BYTE)
        THEN b ELSE 0]

InitLight ==
    /\ ClientInit
    /\ CoordinatorInit
    /\ \E op \in StatusWriteOps, b \in 0..255, on \in BOOLEAN :
          \E arg \in LightArgs(op) :
              calc = [fn |-> "light_command", op |-> op, arg |-> arg,
                      other_on |-> on, other_byte |-> b, stage |-> "called",
                      device |-> DefaultDevice, out |-> ValueErrorResult,
                      decoded |-> <<>>]

\* device = await self._get_status(client, device)
LightReadStatus ==
    /\ calc.fn = "light_command" /\ calc.stage = "called"
    /\ calc' = [calc EXCEPT
                   !.stage = "read",
                   !.device = status_device(
                                  LightStatusBytes(OtherLight(calc.op), calc.other_on),
                                  LightBrightnessBytes(OtherLight(calc.op), calc.other_byte),
                                  Zeros(COMMAND_LENGTH))]
    /\ UNCHANGED <<consecutive_failures, data, poll>>
    /\ UNCHANGED <<clientVars, command>>

\* the command is built and handed to write_gatt_char
LightWrite ==
    /\ calc.fn = "light_command" /\ calc.stage = "read"
    /\ calc' = [calc EXCEPT !.stage = "written",
                            !.out = light_command(calc.op, calc.arg, calc.device)]
    /\ UNCHANGED <<consecutive_failures, data, poll>>
    /\ UNCHANGED <<clientVars, command>>

\* The peer reports the bytes written as its brightness, and the status
\* parser decodes them.
LightReadBack ==
    /\ calc.fn = "light_command" /\ calc.stage = "written"
    /\ calc.out.exc = "None"
    /\ calc' = [calc EXCEPT !.stage = "decoded",
                            !.decoded = parse_brightness(calc.out.frame)]
    /\ UNCHANGED <<consecutive_failures, data, poll>>
    /\ UNCHANGED <<clientVars, command>>

NextLight ==
    \/ LightReadStatus
    \/ LightWrite
    \/ LightReadBack

SpecLight == InitLight /\ [][NextLight]_vars

\* ------------------------------------------------------ the color methods
\* int(color_percentage * 255 / 100): the product is exact and the double
\* quotient has the integer part of the exact one.
ColorPercentToByte(p) == IntDiv(p * 255, 100)

\* client.py lines 511-523, 536-548, 561-575: the frame written back for the
\* bytes read.  new_colors[i] is assigned only when the buffer is longer
\* than the highest offset the method writes.
color_command(op, args, current_colors) ==
    [i \in 1..Len(current_colors) |->
        CASE op = "set_light_top_color" ->
               IF Len(current_colors) > COLOR_TOP_BYTE /\ i = COLOR_TOP_BYTE + 1
               THEN ColorPercentToByte(args[1]) ELSE current_colors[i]
          [] op = "set_light_bottom_color" ->
               IF Len(current_colors) > COLOR_BOTTOM_BYTE /\ i = COLOR_BOTTOM_BYTE + 1
               THEN ColorPercentToByte(args[1]) ELSE current_colors[i]
          [] op = "set_both_lights_color" ->
               IF Len(current_colors) > Max(COLOR_BOTTOM_BYTE, COLOR_TOP_BYTE)
               THEN (IF i = COLOR_BOTTOM_BYTE + 1 THEN ColorPercentToByte(args[2])
                     ELSE IF i = COLOR_TOP_BYTE + 1 THEN ColorPercentToByte(args[1])
                     ELSE current_colors[i])
               ELSE current_colors[i]]

\* Color frames the peer returns: byte i holds 100 + i, so that a byte moved
\* or overwritten shows; lengths as in ReadLengths, and 7.
ColorFrame(n) == [i \in 1..n |-> 100 + i]

ColorArgs(op) ==
    IF op = "set_both_lights_color"
    THEN {<<t, b>> : t \in {0, 1, 50, 100}, b \in {0, 1, 50, 100}}
    ELSE {<<q>> : q \in MIN_PERCENT..MAX_PERCENT}

InitColor ==
    /\ ClientInit
    /\ CoordinatorInit
    /\ \E op \in ColorOps, n \in ReadLengths \cup {COLOR_TOP_BYTE} :
          \E args \in ColorArgs(op) :
              calc = [fn |-> "color_command", op |-> op, args |-> args,
                      in |-> ColorFrame(n), stage |-> "read",
                      out |-> <<>>, decoded |-> <<>>]

\* new_colors is built and handed to write_gatt_char
ColorWrite ==
    /\ calc.fn = "color_command" /\ calc.stage = "read"
    /\ calc' = [calc EXCEPT !.stage = "written",
                            !.out = color_command(calc.op, calc.args, calc.in)]
    /\ UNCHANGED <<consecutive_failures, data, poll>>
    /\ UNCHANGED <<clientVars, command>>

\* The peer reports the frame written, and the status parser decodes it.
ColorReadBack ==
    /\ calc.fn = "color_command" /\ calc.stage = "written"
    /\ calc' = [calc EXCEPT !.stage = "decoded",
                            !.decoded = parse_colors(calc.out)]
    /\ UNCHANGED <<consecutive_failures, data, poll>>
    /\ UNCHANGED <<clientVars, command>>

NextColor ==
    \/ ColorWrite
    \/ ColorReadBack

SpecColor == InitColor /\ [][NextColor]_vars

\* ------------------------------------------------------ color and Kelvin
\* models.py lines 32-40:
\* int(round(MAX_KELVIN - (color / 100) * (MAX_KELVIN - MIN_KELVIN))),
\* rounding to the nearest integer.
color_kelvin(color) ==
    IntDiv(2 * (100 * MAX_KELVIN - color * (MAX_KELVIN - MIN_KELVIN)) + 100, 200)

\* Every fiftieth Kelvin value the range check lets through.
KelvinInputs == {k \in MIN_KELVIN..MAX_KELVIN : k % 50 = 0}

InitKelvin ==
    /\ ClientInit
    /\ CoordinatorInit
    /\ calc \in [fn : {"color_kelvin"}, in : MIN_PERCENT..MAX_PERCENT,
                  percent : {-1}, out : {0}]
            \cup [fn : {"set_color_kelvin"}, in : KelvinInputs,
                   percent : {-1}, out : {0}]

\* device.light_top_color_kelvin for a color percentage
ReadColorKelvin ==
    /\ calc.fn = "color_kelvin" /\ calc.out = 0
    /\ calc' = [calc EXCEPT !.out = color_kelvin(calc.in)]
    /\ UNCHANGED <<consecutive_failures, data, poll>>
    /\ UNCHANGED <<clientVars, command>>

\* set_light_top_color_kelvin: the percentage passed on to set_light_top_color
KelvinToColor ==
    /\ calc.fn = "set_color_kelvin" /\ calc.percent = -1
    /\ calc' = [calc EXCEPT !.percent = KelvinToPercent(calc.in)]
    /\ UNCHANGED <<consecutive_failures, data, poll>>
    /\ UNCHANGED <<clientVars, command>>

\* the Kelvin value a status with that color percentage reports
ColorToKelvin ==
    /\ calc.fn = "set_color_kelvin" /\ calc.percent # -1 /\ calc.out = 0
    /\ calc' = [calc EXCEPT !.out = color_kelvin(calc.percent)]
    /\ UNCHANGED <<consecutive_failures, data, poll>>
    /\ UNCHANGED <<clientVars, command>>

NextKelvin ==
    \/ ReadColorKelvin
    \/ KelvinToColor
    \/ ColorToKelvin

SpecKelvin == InitKelvin /\ [][NextKelvin]_vars

\* ------------------------------------------------- the variant detector
\* Names: the marker in every mix of letter case, alone, after a prefix or
\* before a suffix; and names without it.
CaseMix(str, lowered) ==
    [i \in DOMAIN str |-> IF i \in lowered THEN LowerChar(str[i]) ELSE str[i]]

MarkerNames ==
    {pre \o CaseMix(DEFAULT_LEGACY_DEVICE_NAME, lowered) \o post :
        pre \in {<<>>, <<"b", "_">>}, post \in {<<>>, <<"2">>},
        lowered \in SUBSET DOMAIN DEFAULT_LEGACY_DEVICE_NAME}

OtherNames ==
    {<<>>, <<"S", "K", "E">>, <<"s", "k", "e">>, <<"H", "O", "O", "D", "_", "P", "E">>,
     <<"h", "o", "o", "d", "p", "e", "r">>, <<"H", "O", "O", "D", "-", "P", "E", "R">>}

Uuid(val) == [is_str |-> TRUE, val |-> val]
NotAString == [is_str |-> FALSE, val |-> <<>>]
OtherUuid == Uuid(<<"1", "8", "0", "a">>)

UuidLists ==
    {<<>>, <<OtherUuid>>,
     <<Uuid(lower(LEGACY_UUID_SERVICE))>>, <<Uuid(upper(LEGACY_UUID_SERVICE))>>,
     <<OtherUuid, Uuid(upper(LEGACY_UUID_SERVICE_2018))>>,
     <<Uuid(LEGACY_UUID_SERVICE_2018), OtherUuid>>,
     <<Uuid(Tail(LEGACY_UUID_SERVICE))>>,
     <<Uuid(LEGACY_UUID_SERVICE), NotAString>>, <<NotAString>>}

DetectInputs ==
    [has_name : {TRUE}, name : MarkerNames \cup OtherNames, name_raises : {FALSE},
     metadata : {"dict"}, uuids : {<<>>, <<OtherUuid>>}]
    \cup [has_name : BOOLEAN, name : OtherNames \cup {DEFAULT_LEGACY_DEVICE_NAME},
           name_raises : BOOLEAN,
           metadata : {"missing", "not_dict", "dict"}, uuids : UuidLists]

InitDetect ==
    /\ ClientInit
    /\ CoordinatorInit
    /\ calc \in [fn : {"detect_legacy"}, in : DetectInputs, done : {FALSE},
                  out : {FALSE}]

Detect ==
    /\ calc.fn = "detect_legacy" /\ ~calc.done
    /\ calc' = [calc EXCEPT !.done = TRUE, !.out = DetectLegacy(calc.in)]
    /\ UNCHANGED <<consecutive_failures, data, poll>>
    /\ UNCHANGED <<clientVars, command>>

NextDetect == Detect

SpecDetect == InitDetect /\ [][NextDetect]_vars

\* ----------------------------------------- the legacy advertisement parser
\* legacy_parser.py.  A hex string is a sequence of characters.
HexChars == <<"0", "1", "2", "3", "4", "5", "6", "7", "8", "9",
              "a", "b", "c", "d", "e", "f">>

IsHexChar(c) == \E i \in DOMAIN HexChars : HexChars[i] = c

HexValue(c) == (CHOOSE i \in DOMAIN HexChars : HexChars[i] = c) - 1

\* A whitespace character other than the space
Tab == "\t"

\* int(s, 16) for a string of one or two characters: whitespace at either
\* end is stripped, one sign may come first, and what is left has to be hex
\* digits (an underscore needs a digit on both sides of it, a 0x prefix a
\* digit after it, so neither fits in two characters).
Int16(str) ==
    LET a == IF str # <<>> /\ Head(str) = Tab THEN Tail(str) ELSE str
        b == IF a # <<>> /\ a[Len(a)] = Tab THEN SubSeq(a, 1, Len(a) - 1) ELSE a
        signed == b # <<>> /\ Head(b) \in {"+", "-"}
        digits == IF signed THEN Tail(b) ELSE b
        lowered == lower(digits)
        value == IF Len(lowered) = 2
                 THEN 16 * HexValue(lowered[1]) + HexValue(lowered[2])
                 ELSE HexValue(lowered[1])
    IN  IF digits = <<>> \/ \E i \in DOMAIN lowered : ~IsHexChar(lowered[i])
        THEN [exc |-> "ValueError", val |-> 0]
        ELSE [exc |-> "None",
              val |-> IF signed /\ Head(b) = "-" THEN 0 - value ELSE value]

\* Lines 13-17
nibble(hex_str, start) ==
    IF Len(hex_str) <= start
    THEN [exc |-> "None", val |-> 0]
    ELSE Int16(SubSeq(hex_str, start + 1, start + 1))

\* Lines 20-24
byte(hex_str, start) ==
    IF Len(hex_str) <= start + 1
    THEN [exc |-> "None", val |-> 0]
    ELSE Int16(SubSeq(hex_str, start + 1, start + 2))

\* bytes.hex()
RECURSIVE BytesHex(_)

BytesHex(bs) ==
    IF bs = <<>>
    THEN <<>>
    ELSE <<HexChars[(Head(bs) \div 16) + 1], HexChars[(Head(bs) % 16) + 1]>>
             \o BytesHex(Tail(bs))

\* str.replace(" ", "")
RECURSIVE RemoveSpaces(_)

RemoveSpaces(str) ==
    IF str = <<>>
    THEN <<>>
    ELSE IF Head(str) = " "
    THEN RemoveSpaces(Tail(str))
    ELSE <<Head(str)>> \o RemoveSpaces(Tail(str))

\* The result of the parser: None, or the dict of the eight fields.
NoData == [none |-> TRUE, data |-> DefaultDevice]

\* Variant: the fan byte is stored as it is read.
LegacyFanLevelUncapped(fan_level) == fan_level

\* Lines 54-57
LegacyFanLevel(fan_level) == IF fan_level > 3 THEN 3 ELSE fan_level

\* Line 48
LegacyHexStr(str) == lower(RemoveSpaces(str))

\* parse_legacy_manufacturer_data, lines 44-113.  The payload is bytes, a
\* str, or a value of another type (None, a bytearray), whose replace()
\* is missing or raises; every exception is caught and None returned.
parse_legacy_manufacturer_data(manufacturer_data) ==
    IF manufacturer_data.kind \notin {"bytes", "str"}
    THEN NoData
    ELSE
    LET hex_str == IF manufacturer_data.kind = "bytes"
                   THEN BytesHex(manufacturer_data.val)
                   ELSE LegacyHexStr(manufacturer_data.val)
        fan == byte(hex_str, 12)
        n14 == nibble(hex_str, 14)
        n15 == nibble(hex_str, 15)
        n16 == nibble(hex_str, 16)
        n17 == nibble(hex_str, 17)
        n22 == nibble(hex_str, 22)
        n23 == nibble(hex_str, 23)
        hasActiveIllumination == BitAnd(n17.val, 1) # 0
        hasActiveTrailing == BitAnd(n17.val, 2) # 0
        hasEffectLight == BitAnd(n23.val, 1) # 0
    IN  IF Len(hex_str) < 18
        THEN NoData
        ELSE IF \E r \in {fan, n14, n15, n16, n17, n22, n23} : r.exc # "None"
        THEN NoData
        ELSE [none |-> FALSE,
              data |-> [fan_level |-> LegacyFanLevel(fan.val),
                        fan_postrun_active |-> hasActiveTrailing,
                        light_top_on |-> hasActiveIllumination \/ hasEffectLight,
                        light_bottom_on |-> hasActiveIllumination \/ hasEffectLight,
                        light_top_brightness |-> 0,
                        light_bottom_brightness |-> 0,
                        light_top_color |-> 0,
                        light_bottom_color |-> 0]]

\* update_device lines 206-222: the device built from the first entry of
\* the advertisement's manufacturer data, or the defaults when there is no
\* entry or the parser returns None.
legacy_update_device(adv) ==
    LET device == BerbelDevice(<<>>)
        parsed == IF adv.kind = "absent" THEN NoData
                  ELSE parse_legacy_manufacturer_data(adv)
    IN  IF parsed.none THEN device
        ELSE [k \in DOMAIN device |-> parsed.data[k]]

\* Payloads.  Bytes: six leading bytes, the fan byte, the bytes holding
\* nibbles 14-15 and 16-17, and in the longer ones the byte holding nibbles
\* 22-23; also payloads too short.  Strings: hex digits in either case with
\* or without spaces, too short, and with a character that is no hex digit
\* in a position the parser reads or in one it does not.
Rep(c, n) == [i \in 1..n |-> c]

LegacyBytePayloads ==
    {<<>>, Zeros(8)}
    \cup {Zeros(6) \o <<fan, b7, b8>> :
             fan \in {0, 1, 3, 4, 255}, b7 \in {0, 145}, b8 \in {0, 1, 2, 3, 32}}
    \cup {Zeros(6) \o <<fan, 0, b8, 0, 0, b11>> :
             fan \in {2, 4}, b8 \in {0, 1, 2}, b11 \in {0, 1, 14, 241}}

LegacyStrPayloads ==
    {<<>>, Rep("0", 17), Rep("0", 16) \o <<" ", "1">>}
    \cup {Rep("0", 12) \o <<f1, f2>> \o <<"0", "0", "0", n17>> :
             f1 \in {"0", "F", "-", "+", Tab, "k"}, f2 \in {"0", "4", "a"},
             n17 \in {"0", "1", "3", "E", "k"}}
    \cup {<<c>> \o Rep("0", 11) \o <<"0", "2", " ", "0", "0", "0", "1">> :
             c \in {"0", "k", "-"}}
    \cup {Rep("0", 12) \o <<"0", "1", "0", "0", "0", "2">> \o <<c, "0", "0", "0", n22, n23>> :
             c \in {"0", "k"}, n22 \in {"0", "k"}, n23 \in {"1", "e"}}

LegacyPayloads ==
    {[kind |-> "absent", val |-> <<>>], [kind |-> "other", val |-> <<>>]}
    \cup [kind : {"bytes"}, val : LegacyBytePayloads]
    \cup [kind : {"str"}, val : LegacyStrPayloads]

\* All characters of a string payload are hex digits, spaces aside.
ValidHex(str) ==
    \A i \in DOMAIN str : str[i] = " " \/ IsHexChar(LowerChar(str[i]))

InitLegacy ==
    /\ ClientInit
    /\ CoordinatorInit
    /\ calc \in [fn : {"legacy_parser"}, in : LegacyPayloads, stage : {0},
                  parsed : {NoData}, device : {DefaultDevice}]

\* parse_legacy_manufacturer_data(payload)
LegacyParse ==
    /\ calc.fn = "legacy_parser" /\ calc.stage = 0
    /\ calc' = [calc EXCEPT !.stage = 1,
                            !.parsed = parse_legacy_manufacturer_data(calc.in)]
    /\ UNCHANGED <<consecutive_failures, data, poll>>
    /\ UNCHANGED <<clientVars, command>>

\* update_device for a legacy peer advertising the payload
LegacyUpdate ==
    /\ calc.fn = "legacy_parser" /\ calc.stage = 1
    /\ calc' = [calc EXCEPT !.stage = 2,
                            !.device = legacy_update_device(calc.in)]
    /\ UNCHANGED <<consecutive_failures, data, poll>>
    /\ UNCHANGED <<clientVars, command>>

NextLegacy ==
    \/ LegacyParse
    \/ LegacyUpdate

SpecLegacy == InitLegacy /\ [][NextLegacy]_vars

\* ------------------------------------------------------------ properties
\* C1: in every interleaving of update_device, the control methods,
\* disconnect() and timer firings, at most one connection opened by the
\* client is live (established, not yet disconnected), and a live connection
\* is the one recorded in _active_client.
C1_LiveConnectionIsActiveClient ==
    /\ Cardinality({c \in Conns : conn_state[c] = "up"}) <= 1
    /\ \A c \in Conns : conn_state[c] = "up" => active_client = c

\* C2: no two transport calls (connect, read, write, disconnect) are in
\* flight at once, and every coroutine with a transport call in flight,
\* the timer's teardown, update_device's error handling and disconnect()
\* included, holds _connection_lock.
C2_TransportCallsUnderLock ==
    LET InFlight(t) == task[t].pc \in {"connecting", "reading", "writing", "disconnecting"}
    IN  /\ Cardinality({t \in Procs : InFlight(t)}) <= 1
        /\ \A t \in Procs : InFlight(t) => lock_owner = t

\* C3: update_device on a modern peer with max_retries = n >= 1 runs at most
\* n cycles; it returns in the first cycle that succeeds; when all n cycles
\* fail it raises the exception of the n-th cycle; it sleeps only between
\* attempts, never after the last one.
C3_UpdateDeviceRetryLoop ==
    \A t \in Clients :
        (task[t].op = "update_device" /\ task[t].path = "modern") =>
            /\ task[t].attempt <= task[t].max_retries
            /\ task[t].n_acquire <= task[t].attempt
            /\ task[t].n_backoff < task[t].max_retries
            /\ task[t].n_backoff =
                   IF task[t].pc = "backoff" THEN task[t].attempt ELSE task[t].attempt - 1
            /\ (task[t].pc = "done" /\ task[t].result.kind = "ok") =>
                   /\ task[t].result.attempt = task[t].attempt
                   /\ task[t].n_acquire = task[t].attempt
            /\ (task[t].pc = "done" /\ task[t].result.kind = "raise") =>
                   /\ task[t].attempt = task[t].max_retries
                   /\ task[t].result.attempt = task[t].max_retries
                   /\ task[t].result.exc = task[t].last_exception.type
                   /\ task[t].n_backoff = task[t].max_retries - 1

C3_Witness_AllAttemptsFailed ==
    \E t \in Clients :
        /\ task[t].op = "update_device" /\ task[t].path = "modern"
        /\ task[t].pc = "done" /\ task[t].result.kind = "raise"
        /\ task[t].max_retries = MaxAttempts
        /\ task[t].result.attempt = MaxAttempts
        /\ task[t].n_backoff = MaxAttempts - 1

\* C4: whenever a client operation, on the modern or the legacy path, fails
\* with a transport error from connect, read or write, the connection it
\* used is torn down before the operation returns and is not reused: when
\* the error reaches the caller the client holds no connection.
C4_TransportErrorTearsDown ==
    \A t \in Clients :
        (task[t].pc = "done" /\ task[t].result.kind = "raise"
            /\ task[t].result.exc = "BleakError") => active_client = 0

\* C5: a control method called with an argument out of range (fan level
\* outside [0,3], a percentage outside [0,100], a Kelvin value outside
\* [2700,6500]) raises ValueError before any transport call: it connects,
\* reads, writes and disconnects nothing and leaves the connection state,
\* the idle timer and the lock as they were.
C5_OutOfRangeRaisesBeforeTransport ==
    [][LET Fan(x) == 0 <= x /\ x <= 3
            Pct(x) == 0 <= x /\ x <= 100
            Kel(x) == 2700 <= x /\ x <= 6500
            OutOfRange(op, a) ==
                \/ op = "set_fan_level" /\ ~Fan(a[1])
                \/ op \in {"set_light_top_brightness", "set_light_bottom_brightness",
                           "set_light_top_color", "set_light_bottom_color"} /\ ~Pct(a[1])
                \/ op \in {"set_both_lights_brightness", "set_both_lights_color"}
                       /\ (~Pct(a[1]) \/ ~Pct(a[2]))
                \/ op \in {"set_light_top_color_kelvin", "set_light_bottom_color_kelvin"}
                       /\ ~Kel(a[1])
                \/ op = "set_both_lights_color_kelvin" /\ (~Kel(a[1]) \/ ~Kel(a[2]))
       IN
       \A t \in Clients :
          (task[t].pc = "idle" /\ task'[t].pc # "idle"
              /\ OutOfRange(task'[t].op, task'[t].args)) =>
             /\ task'[t].pc = "done"
             /\ task'[t].result.kind = "raise"
             /\ task'[t].result.exc = "ValueError"
             /\ task'[t].n_acquire = 0 /\ task'[t].n_connect = 0
             /\ task'[t].n_write = 0 /\ task'[t].n_disc = 0
             /\ UNCHANGED <<active_client, active_device, connection_timeout_handle,
                            loop_timers, timer_remaining, disconnect_pending,
                            lock_owner, lock_waiters, conn_state>>]_vars

C5_Witness_RejectedWhileConnected ==
    \E t \in Clients :
        /\ task[t].op = "set_fan_level" /\ task[t].args = <<MAX_FAN_LEVEL + 1>>
        /\ task[t].pc = "done" /\ task[t].result.exc = "ValueError"
        /\ active_client # 0 /\ conn_state[active_client] = "up"
        /\ connection_timeout_handle = "armed"

\* C6: when the client holds a connection to address A that the transport
\* reports connected and no teardown is pending, _ensure_connection for a
\* peer at address A returns that connection, starts no connect and re-arms
\* the idle timer to the full CONNECTION_TIMEOUT of 20.
C6_SameAddressReuses ==
    [][\A t \in Clients :
          (/\ task'[t].n_acquire = task[t].n_acquire + 1
           /\ active_client # 0
           /\ conn_state[active_client] = "up"
           /\ active_device # 0
           /\ PeerAddress(active_device) = PeerAddress(task'[t].dev)
           /\ ~disconnect_pending) =>
             /\ task'[t].client = active_client
             /\ task'[t].pc \notin {"connecting", "disconnecting"}
             /\ task'[t].n_connect = (IF task[t].pc = "idle" THEN 0 ELSE task[t].n_connect)
             /\ active_client' = active_client
             /\ active_device' = active_device
             /\ conn_state' = conn_state
             /\ connection_timeout_handle' = "armed"
             /\ timer_remaining' = 20
             /\ loop_timers' = 1]_vars

C6_Witness_Reused ==
    \E t \in Clients :
        /\ task[t].n_acquire = 1 /\ task[t].n_connect = 0
        /\ task[t].client # 0 /\ task[t].client = active_client
        /\ connection_timeout_handle = "armed"
        /\ timer_remaining = CONNECTION_TIMEOUT

\* C7: when the client holds a connection to address A and
\* _ensure_connection is called for a peer at another address B, the
\* transport disconnect of the connection to A has returned or raised before
\* the connect to B is started, nothing is held while the connect runs, and
\* when the connect returns _active_client and _active_device are B's.
C7_TeardownBeforeConnect ==
    [][\A t \in Clients :
          /\ (task[t].pc # "connecting" /\ task'[t].pc = "connecting") =>
                /\ active_client # 0 =>
                      /\ task[t].pc = "disconnecting"
                      /\ task[t].ret = "ensure"
                      /\ task[t].client = active_client
                /\ active_client' = 0
                /\ active_device' = 0
          /\ (task[t].pc = "connecting" /\ task'[t].client # 0) =>
                /\ active_client' = task'[t].client
                /\ active_device' = task[t].dev
                /\ conn_state'[active_client'] = "up"
                /\ conn_state[active_client'] = "unused"]_vars

C7_Witness_OtherAddress ==
    \E t \in Clients :
        /\ task[t].pc = "disconnecting" /\ task[t].ret = "ensure"
        /\ task[t].client = active_client
        /\ conn_state[active_client] = "up"
        /\ ~disconnect_pending
        /\ PeerAddress(active_device) # PeerAddress(task[t].dev)

\* C8: disconnect() is idempotent: on a client that holds a connection it
\* cancels the idle timer, calls the transport's disconnect exactly once and
\* leaves no connection held; called again, or on a client that holds none,
\* it makes no transport call and leaves no connection held and no timer
\* armed.
C8_DisconnectIdempotent ==
    [][\A t \in Clients :
          /\ (task[t].pc = "idle" /\ task'[t].op = "disconnect") =>
                /\ connection_timeout_handle' = "None"
                /\ loop_timers' = 0
                /\ IF active_client # 0
                   THEN /\ task'[t].pc = "disconnecting"
                        /\ task'[t].client = active_client
                        /\ task'[t].n_disc = 1
                   ELSE /\ task'[t].pc = "done"
                        /\ task'[t].n_disc = 0
                        /\ active_client' = 0
                        /\ conn_state' = conn_state
          /\ (task[t].op = "disconnect" /\ task[t].pc = "disconnecting"
                 /\ task'[t].pc # "disconnecting") =>
                /\ task'[t].pc = "done"
                /\ task'[t].n_disc = 1
                /\ active_client' = 0
                /\ active_device' = 0
                /\ ~disconnect_pending']_vars

C8_Witness_DisconnectedOnce ==
    \E t \in Clients :
        /\ task[t].op = "disconnect" /\ task[t].pc = "done"
        /\ task[t].n_disc = 1
        /\ active_client = 0
        /\ connection_timeout_handle = "None"

\* C9: once disconnect() has returned and no operation was started after
\* it, no idle timer is armed or left to fire and the client holds no
\* connection, also when disconnect() ran while another operation was
\* suspended in establish_connection or in a read or write.
C9_NothingLeftAfterDisconnect ==
    disposed =>
        /\ active_client = 0
        /\ connection_timeout_handle # "armed"
        /\ loop_timers = 0

\* C10: a control method is never retried: one invocation makes at most one
\* connection attempt and at most one command write, and a failed connect or
\* write is raised to the caller in the first and only attempt.
C10_ControlNotRetried ==
    \A t \in Clients :
        task[t].op \in ControlOps =>
            /\ task[t].n_acquire <= 1
            /\ task[t].n_connect <= 1
            /\ task[t].n_write <= 1
            /\ task[t].attempt = 1
            /\ (task[t].pc = "done" /\ task[t].result.kind = "raise") =>
                   task[t].result.attempt = 1

C10_Witness_WriteFailedOnce ==
    \E t \in Clients :
        /\ task[t].op \in ControlOps /\ task[t].path = "modern"
        /\ task[t].pc = "done" /\ task[t].result.kind = "raise"
        /\ task[t].result.exc = "BleakError"
        /\ task[t].n_connect = 1 /\ task[t].n_write = 1

C12_NoCallInsideAnothersCriticalSection ==
    /\ \A i \in 1..Len(lock_waiters) :
           /\ lock_waiters[i] # lock_owner
           /\ task[lock_waiters[i]].pc = "wait_lock"
    /\ \A t \in Procs :
           (/\ lock_owner # 0
            /\ task[lock_owner].pc # "wait_lock"
            /\ task[t].pc \in {"connecting", "reading", "writing", "disconnecting"})
               => lock_owner = t

\* C13: when the coordinator has a last status, a poll whose update_device
\* failed returns that status unchanged if it is the first or second failure
\* in a row and raises UpdateFailed from the third failure in a row on; a
\* poll whose update_device succeeded sets the failure count to zero.  The
\* count always equals the number of failed polls since the last success.
C13_FailedPollKeepsLastStatusTwice ==
    /\ consecutive_failures = poll.streak
    /\ (poll.pc = "done" /\ poll.failed /\ poll.before # "None") =>
           /\ poll.streak \in {1, 2} =>
                  /\ poll.outcome = "return"
                  /\ poll.value = poll.before
                  /\ data = poll.before
           /\ poll.streak >= 3 => poll.outcome = "UpdateFailed"
    /\ (poll.pc = "done" /\ ~poll.failed) =>
           /\ consecutive_failures = 0
           /\ poll.outcome = "return"
           /\ poll.value \in Statuses

\* The third failure in a row, with a last status at hand, reported
\* UpdateFailed.
C13_Witness_ThirdFailure ==
    /\ poll.pc = "done"
    /\ poll.failed
    /\ poll.before \in Statuses
    /\ poll.streak = 3
    /\ poll.outcome = "UpdateFailed"
    /\ data = poll.before

\* C14: every frame a control method passes to write_gatt_char on the modern
\* path is 31 bytes long, for fan, brightness, light on/off and the color
\* read-modify-write, whatever the peer returned on the preceding read.
C14_OnlyFullFramesWritten ==
    \A t \in Clients :
        (task[t].pc = "writing" /\ task[t].path = "modern") =>
            task[t].wlen = COMMAND_LENGTH

\* C15: every device status that the constructor builds or that a status
\* read returns (modern GATT read or legacy advertisement) has both
\* brightness fields and both color fields in 0..100 and fan_level in 0..4,
\* whatever bytes were read; the constructor clamps what it is given (fan
\* level 7 to 4 and -1 to 0, brightness 150 to 100).
C15_StatusFieldsInRange ==
    (calc.fn \in {"BerbelDevice", "get_status", "legacy"} /\ calc.done
     /\ calc.exc = "None") =>
        /\ InRange(0, calc.out.light_top_brightness, 100)
        /\ InRange(0, calc.out.light_bottom_brightness, 100)
        /\ InRange(0, calc.out.light_top_color, 100)
        /\ InRange(0, calc.out.light_bottom_color, 100)
        /\ InRange(0, calc.out.fan_level, 4)
        /\ calc.fn = "BerbelDevice" =>
               /\ calc.in.fan_level = 7 => calc.out.fan_level = 4
               /\ calc.in.fan_level = -1 => calc.out.fan_level = 0
               /\ calc.in.light_top_brightness = 150 =>
                      calc.out.light_top_brightness = 100
               /\ InRange(0, calc.in.fan_level, 4) =>
                      calc.out.fan_level = calc.in.fan_level

\* The constructor was given fan level 7 and brightness 150 and clamped both.
C15_Witness_Clamped ==
    /\ calc.fn = "BerbelDevice" /\ calc.done
    /\ calc.in.fan_level = 7 /\ calc.in.light_top_brightness = 150
    /\ calc.out.fan_level = 4 /\ calc.out.light_top_brightness = 100

\* C16: for every percentage p in 0..100, encoding brightness p into a
\* command frame and decoding the written byte with the status decoder gives
\* floor(round(p * 2.55) * 100 / 255); in particular 0 gives 0, 100 gives
\* 100, and 50 gives 49 or 50.  (round: to the nearest integer, halves up.)
C16_BrightnessRoundTrip ==
    (calc.fn = "brightness_command" /\ calc.decoded # <<>> /\ calc.in.top # <<>>) =>
        LET p == calc.in.top[1]
            rounded == IntDiv(p * 255 + 50, 100)
            back == calc.decoded[2]
        IN  /\ back = IntDiv(rounded * 100, 255)
            /\ p = 0 => back = 0
            /\ p = 100 => back = 100
            /\ p = 50 => back \in {49, 50}

\* C17: create_light_brightness_command_from_percentage(top, bottom) returns
\* a 31-byte frame equal to the template except that byte 5 is
\* round(top * 2.55) when top is given and byte 4 is round(bottom * 2.55)
\* when bottom is given; an omitted side keeps the template's byte; a
\* percentage outside 0..100 raises ValueError.
C17_BrightnessFrame ==
    (calc.fn = "brightness_command" /\ calc.done) =>
        LET top == calc.in.top
            bottom == calc.in.bottom
            rounded(p) == IntDiv(p * 255 + 50, 100)
            bad(a) == a # <<>> /\ ~(0 <= a[1] /\ a[1] <= 100)
            frame == calc.out.frame
        IN  IF bad(top) \/ bad(bottom)
            THEN calc.out.exc = "ValueError"
            ELSE /\ calc.out.exc = "None"
                 /\ Len(frame) = 31
                 /\ \A i \in 1..31 :
                        frame[i] = IF i = 6 /\ top # <<>> THEN rounded(top[1])
                                   ELSE IF i = 5 /\ bottom # <<>> THEN rounded(bottom[1])
                                   ELSE BrightnessTemplate[i]

\* C18: the Kelvin value of a color percentage is linear in the percentage,
\* with 0 % at 6500 K and 100 % at 2700 K; converting k Kelvin to a
\* percentage as set_light_top_color_kelvin does and that percentage back
\* to Kelvin gives a value within 1 of k for k = 2700, 4600 and 6500.
C18_KelvinMapping ==
    /\ (calc.fn = "color_kelvin" /\ calc.out # 0) =>
           /\ 100 * (MAX_KELVIN - calc.out) = calc.in * (MAX_KELVIN - MIN_KELVIN)
           /\ calc.in = 0 => calc.out = 6500
           /\ calc.in = 100 => calc.out = 2700
    /\ (calc.fn = "set_color_kelvin" /\ calc.percent # -1) =>
           InRange(MIN_PERCENT, calc.percent, MAX_PERCENT)
    /\ (calc.fn = "set_color_kelvin" /\ calc.out # 0
         /\ calc.in \in {2700, 4600, 6500}) =>
           /\ calc.out - calc.in <= 1
           /\ calc.in - calc.out <= 1

\* 4600 K went to 50 % and back to 4600 K.
C18_Witness_RoundTrip4600 ==
    /\ calc.fn = "set_color_kelvin"
    /\ calc.in = 4600
    /\ calc.percent = 50
    /\ calc.out = 4600

C20_RetryAfterTransportError ==
    [][\A t \in Clients :
          LET a == task[t]
              b == task'[t]
              Update(x) == x.op = "update_device" /\ x.path = "modern"
              Failed(x) == x.last_exception.type = "BleakError" /\
                           x.last_exception.attempt = x.attempt
          IN  /\ (Update(b) /\ Failed(b) /\ b.last_exception # a.last_exception
                  /\ b.attempt < b.max_retries) =>
                     IF active_client # 0
                     THEN /\ b.pc = "disconnecting"
                          /\ b.client = active_client
                          /\ b.n_disc = a.n_disc + 1
                     ELSE /\ b.pc = "backoff"
                          /\ b.n_disc = a.n_disc
              /\ (Update(a) /\ Failed(a) /\ a.pc = "disconnecting"
                  /\ a.ret = "update_retry" /\ a.attempt < a.max_retries
                  /\ b.pc # "disconnecting") =>
                     /\ b.pc = "backoff"
                     /\ b.n_disc = a.n_disc
                     /\ b.n_connect = a.n_connect
              /\ (Update(a) /\ Failed(a) /\ a.pc = "backoff") =>
                     /\ active_client = 0
                     /\ lock_owner # t
                     /\ b.pc # "backoff" =>
                            /\ b.attempt = a.attempt + 1
                            /\ b.pc = "connecting"
                            /\ b.n_connect = a.n_connect + 1
                            /\ b.n_disc = a.n_disc
                            /\ b.n_backoff = a.n_backoff
              /\ (Update(a) /\ Failed(a) /\ a.attempt < a.max_retries
                  /\ a.pc \in {"disconnecting", "backoff"}) =>
                     \A u \in Procs \ {t} : task'[u].n_disc <= task[u].n_disc
              /\ (Update(b) /\ b.pc = "done" /\ a.pc # "done"
                  /\ b.result.kind = "ok" /\ b.attempt = 2) =>
                     /\ b.result.attempt = 2
                     /\ a.pc = "reading"
                     /\ b.n_acquire = 2
                     /\ b.n_backoff = 1
                     /\ (b.last_exception.type = "BleakError" =>
                            b.last_exception.attempt = 1)
      ]_vars

\* C21 (as stated): when the idle timer has fired and its teardown has not
\* completed (_disconnect_pending is set, the connection is still held) and
\* _ensure_connection is called for the same address, the connection is
\* reused: no disconnect of it and no connect is started.
C21_PendingConnectionReused ==
    [][\A t \in Clients :
          (/\ task'[t].n_acquire = task[t].n_acquire + 1
           /\ disconnect_pending
           /\ active_client # 0
           /\ conn_state[active_client] = "up"
           /\ active_device # 0
           /\ PeerAddress(active_device) = PeerAddress(task'[t].dev)) =>
             /\ task'[t].client = active_client
             /\ task'[t].pc \notin {"connecting", "disconnecting"}
             /\ active_client' = active_client]_vars

\* C21 (amended): when the idle timer has fired and its teardown has not
\* completed (_disconnect_pending is set, the connection is still held) and
\* _ensure_connection is called for the same address, the connection is not
\* reused: _ensure_connection forgets the timer handle and calls disconnect()
\* on the held connection itself, no frame is read or written on it, and when
\* that disconnect has returned or raised it starts one connect.
C21_PendingConnectionReplaced ==
    [][\A t \in Clients :
          /\ (/\ task'[t].n_acquire = task[t].n_acquire + 1
              /\ disconnect_pending
              /\ active_client # 0
              /\ active_device # 0
              /\ PeerAddress(active_device) = PeerAddress(task'[t].dev)) =>
                /\ task'[t].pc = "disconnecting"
                /\ task'[t].ret = "ensure"
                /\ task'[t].client = active_client
                /\ task'[t].n_disc = (IF task[t].pc = "idle" THEN 0 ELSE task[t].n_disc) + 1
                /\ task'[t].n_connect = (IF task[t].pc = "idle" THEN 0 ELSE task[t].n_connect)
                /\ task'[t].n_write = (IF task[t].pc = "idle" THEN 0 ELSE task[t].n_write)
                /\ connection_timeout_handle' = "None"
                /\ conn_state' = conn_state
          /\ (/\ task[t].pc = "disconnecting"
              /\ task[t].ret = "ensure"
              /\ task'[t].pc # "disconnecting") =>
                /\ task'[t].pc = "connecting"
                /\ task'[t].n_connect = task[t].n_connect + 1
                /\ task'[t].n_disc = task[t].n_disc
                /\ active_client' = 0]_vars

\* an acquire for the held address found the teardown pending and is
\* disconnecting the connection while the timer's task has not finished
C21_Witness_AcquireWhilePending ==
    \E t \in Clients, u \in Teardowns :
        /\ task[t].pc = "disconnecting"
        /\ task[t].ret = "ensure"
        /\ task[t].client = active_client
        /\ conn_state[active_client] = "up"
        /\ PeerAddress(task[t].dev) = PeerAddress(active_device)
        /\ disconnect_pending
        /\ task[u].pc \in {"scheduled", "disconnecting"}

\* C22: from the first read of a color method or of a light method that
\* reads the status before it writes, until its write has returned or the
\* method has failed, the method holds _connection_lock and no other
\* coroutine has a read or a write in flight or starts one.
C22_MultiStepAtomic ==
    [][\A t \in Clients :
          (/\ task[t].op \in ColorOps \cup StatusWriteOps
           /\ task[t].pc \in {"reading", "cmd_sleep", "writing"}) =>
             /\ lock_owner = t
             /\ \A u \in Procs \ {t} :
                    /\ task[u].pc \notin {"reading", "writing"}
                    /\ task'[u].pc \in {"reading", "writing"} =>
                           task'[t].pc \notin {"reading", "cmd_sleep", "writing"}
                    /\ task'[u].n_write = task[u].n_write \/ task'[u].pc = "idle"
      ]_vars

\* a color method has read the frame and is writing it back while
\* update_device waits for the lock
C22_Witness_WriteBackWhileOtherWaits ==
    \E t, u \in Clients :
        /\ task[t].op \in ColorOps
        /\ task[t].pc = "writing"
        /\ task[u].op = "update_device"
        /\ task[u].pc = "wait_lock"

\* C23: a method that changes one light (set_light_top_on,
\* set_light_bottom_on, set_light_top_brightness,
\* set_light_bottom_brightness) writes, for the other light, a brightness
\* byte that decodes to the same percentage as the byte b in 0..255 the peer
\* reported for that light while it was on.
C23_OtherLightPreserved ==
    (calc.fn = "light_command" /\ calc.stage = "decoded" /\ calc.other_on) =>
        LET other == OtherLight(calc.op)
            back == IF other = "top" THEN calc.decoded[2] ELSE calc.decoded[1]
        IN  back = ByteToPercent(calc.other_byte)

\* C24: a color method writes back the frame it read with the byte at
\* offset 7 (top) and/or offset 6 (bottom) replaced by percent * 255 / 100
\* rounded to the nearest integer; every other byte, the other light's
\* included, is the byte read.
C24_ColorFrameWrittenBack ==
    (calc.fn = "color_command" /\ calc.stage # "read" /\ Len(calc.in) = COMMAND_LENGTH) =>
        LET Nearest(v, q) == -50 <= 100 * v - 255 * q /\ 100 * v - 255 * q <= 50
            top == IF calc.op = "set_light_bottom_color" THEN <<>> ELSE <<calc.args[1]>>
            bottom == IF calc.op = "set_light_top_color" THEN <<>>
                      ELSE IF calc.op = "set_light_bottom_color" THEN <<calc.args[1]>>
                      ELSE <<calc.args[2]>>
        IN  /\ Len(calc.out) = Len(calc.in)
            /\ \A i \in 1..Len(calc.out) :
                   IF i = 8 /\ top # <<>> THEN Nearest(calc.out[i], top[1])
                   ELSE IF i = 7 /\ bottom # <<>> THEN Nearest(calc.out[i], bottom[1])
                   ELSE calc.out[i] = calc.in[i]

\* C25: while a control method runs for a peer, the client is in legacy
\* mode exactly when _detect_legacy classifies that peer as legacy, and
\* set_fan_level and set_both_lights_on are on their legacy branch exactly
\* then; this holds for a control method called before any update_device.
C25_ControlPathFollowsPeer ==
    \A t \in Clients :
        (task[t].op \in ControlOps /\ task[t].pc \notin {"idle", "done"}) =>
            /\ legacy_mode = detect_legacy(task[t].dev)
            /\ task[t].op \in LegacySenderOps =>
                   ((task[t].path = "legacy") = detect_legacy(task[t].dev))

\* C26: while _legacy_mode is set, the only write a control method makes is
\* the ASCII command of the legacy sender: a method that is not on the
\* legacy branch has written nothing and has no write in flight.
C26_NoModernFrameInLegacyMode ==
    legacy_mode =>
        \A t \in Clients :
            (task[t].op \in ControlOps /\ task[t].path # "legacy") =>
                /\ task[t].pc # "writing"
                /\ task[t].n_write = 0

\* C27: no connection is leaked.  A connection the client has established
\* stays within reach of the idle teardown until disconnect() has been
\* called on it: the client (and with it the timer's teardown task, which
\* disconnects _active_client only) loses its last reference to a live
\* connection only in the step in which a disconnect() call on that
\* connection returns or raises.
C27_NoConnectionLeaked ==
    [][\A c \in Conns :
          (conn_state[c] = "up" /\ conn_state'[c] = "unused") =>
              \E t \in Procs :
                  /\ task[t].pc = "disconnecting"
                  /\ task[t].client = c
                  /\ task'[t].client # c
      ]_vars

\* C28: every call of update_device or of a control method returns or
\* raises, and every service call gets and leaves the coordinator's lock,
\* provided that every transport call and sleep ends (by returning or by
\* raising) and that a coroutine handed a lock is run.  A method that has
\* returned or raised neither holds nor waits for the client's lock; the
\* client's lock is only ever taken by a service call that already holds
\* the coordinator's lock, or by the poll, which takes no other lock; and a
\* caller that is done holds no lock.
C28_OperationsTerminate ==
    LET Awaiting == {"connecting", "reading", "writing", "disconnecting",
                     "cmd_sleep", "backoff"}
        CallsEnd == \A t \in Procs : []<>(task[t].pc \notin Awaiting)
        WaitersRun ==
            /\ \A t \in Clients : []<>(~(task[t].pc = "wait_lock" /\ lock_owner = t))
            /\ \A c \in Callers : []<>(command.pc[c] \notin {"locked", "refresh"})
    IN
    /\ [](\A t \in Clients :
             task[t].pc \in {"done", "idle"} =>
                 /\ lock_owner # t
                 /\ \A i \in 1..Len(lock_waiters) : lock_waiters[i] # t)
    /\ [](\A c \in Callers :
             /\ command.pc[c] \in {"idle", "refresh"} =>
                    /\ command.owner # c
                    /\ \A i \in 1..Len(command.waiters) : command.waiters[i] # c
             /\ command.pc[c] = "waiting" => command.owner \notin {0, c})
    /\ [](task[ServiceTask].pc # "idle" =>
             /\ command.owner # 0
             /\ command.pc[command.owner] = "calling")
    /\ (CallsEnd /\ WaitersRun) =>
           /\ \A t \in Clients : (task[t].pc # "idle") ~> (task[t].pc = "done")
           /\ \A c \in Callers : (command.pc[c] # "idle") ~> (command.pc[c] = "idle")

\* update_device waits for the client's lock, which a control method holds
\* with a write in flight, while a second service call waits for the
\* coordinator's lock
C28_Witness_BothLocksContended ==
    \E t \in Clients, c \in Callers :
        /\ task[t].op = "update_device"
        /\ task[t].pc = "wait_lock"
        /\ lock_owner = ServiceTask
        /\ task[ServiceTask].pc = "writing"
        /\ command.pc[c] = "waiting"

\* C29: when BleakClient.disconnect() raises inside _disconnect_internal
\* (the connection is left as it was), the error does not reach the caller:
\* _ensure_connection goes on to connect, disconnect() returns, a failing
\* operation raises its own exception, the timer's task ends; and the
\* client is left with _active_client and _active_device None,
\* _disconnect_pending False, no timer handle and no timer pending.
C29_TeardownBestEffort ==
    [][\A t \in Procs :
          LET a == task[t]
              b == task'[t]
          IN  (/\ a.pc = "disconnecting"
               /\ b.pc # "disconnecting"
               /\ conn_state[a.client] # "closed"
               /\ conn_state'[a.client] \notin {"closed", "unused"}) =>
                 /\ active_client' = 0
                 /\ active_device' = 0
                 /\ ~disconnect_pending'
                 /\ connection_timeout_handle' = "None"
                 /\ loop_timers' = 0
                 /\ CASE a.ret = "ensure" -> b.pc = "connecting"
                      [] a.ret = "disconnect" ->
                             b.pc = "done" /\ b.result.kind = "ok"
                      [] a.ret = "cmd_fail" ->
                             /\ b.pc = "done" /\ b.result.kind = "raise"
                             /\ b.result.exc = a.last_exception.type
                      [] a.ret = "timer" -> b.pc = "idle"
                      [] OTHER -> b.pc \in {"done", "backoff"}
      ]_vars

\* C30: when establish_connection raises in _ensure_connection, the
\* BleakError reaches the method that called _ensure_connection (a control
\* method raises it to its caller), and the exception finds the client
\* disconnected: _active_client and _active_device are None, and no timer
\* handle is stored and no timer is pending.
C30_ConnectFailureLeavesDisconnected ==
    [][\A t \in Clients :
          LET a == task[t]
              b == task'[t]
              e == [type |-> "BleakError", attempt |-> a.attempt]
          IN  (/\ a.pc = "connecting"
               /\ a.last_exception # e
               /\ b.last_exception = e) =>
                 /\ active_client = 0
                 /\ active_device = 0
                 /\ connection_timeout_handle = "None"
                 /\ loop_timers = 0
                 /\ a.op \in ControlOps =>
                        /\ b.pc = "done"
                        /\ b.result.kind = "raise"
                        /\ b.result.exc = "BleakError"
      ]_vars

\* C31: when update_device on a modern peer has raised (all attempts
\* failed, with BleakErrors or with other exceptions), _active_client is
\* None, no timer handle is stored and no timer is pending.
C31_ExhaustedUpdateLeavesDisconnected ==
    \A t \in Clients :
        (/\ task[t].pc = "done"
         /\ task[t].op = "update_device"
         /\ task[t].path = "modern"
         /\ task[t].result.kind = "raise") =>
            /\ active_client = 0
            /\ connection_timeout_handle = "None"
            /\ loop_timers = 0

\* C32: _ensure_connection returns the stored client only if is_connected
\* is true at that moment; when the stored client's link is lost it awaits
\* _disconnect_internal for that client, also for the same address, and
\* then goes on to establish_connection.
C32_DroppedConnectionNotReused ==
    [][\A t \in Clients :
          LET a == task[t]
              b == task'[t]
          IN  /\ (b.n_acquire = a.n_acquire + 1) =>
                    /\ (b.client # 0 /\ b.pc # "disconnecting") =>
                           /\ b.client = active_client
                           /\ conn_state[b.client] = "up"
                    /\ (active_client # 0 /\ conn_state[active_client] # "up") =>
                           /\ b.pc = "disconnecting"
                           /\ b.ret = "ensure"
                           /\ b.client = active_client
              /\ (a.pc = "disconnecting" /\ a.ret = "ensure"
                     /\ b.pc # "disconnecting") =>
                    b.pc = "connecting" /\ b.n_connect = a.n_connect + 1
      ]_vars

\* A control method is tearing down a client whose link is lost and whose
\* address is the one it was called with.
C32_Witness_DroppedSameAddress ==
    \E t \in Clients :
        /\ task[t].pc = "disconnecting"
        /\ task[t].ret = "ensure"
        /\ conn_state[task[t].client] = "down"
        /\ active_device # 0
        /\ PeerAddress(active_device) = PeerAddress(task[t].dev)
        /\ ~disconnect_pending

\* C33: the fan level _get_status stores is 1 whenever status byte 0 is
\* FAN_LEVEL_1, whatever byte 1 is; otherwise it is 2, 3 or 4 when byte 1
\* is FAN_LEVEL_2, FAN_LEVEL_3 or FAN_LEVEL_4, and 0 in every other case.
C33_FanLevelOneFirst ==
    (calc.fn = "get_status" /\ calc.done /\ calc.exc = "None") =>
        LET b0 == calc.in.status[STATUS_FAN_LEVEL_1_BYTE + 1]
            b1 == calc.in.status[STATUS_FAN_LEVEL_2_4_BYTE + 1]
            level == calc.out.fan_level
        IN  /\ b0 = FAN_LEVEL_1 => level = 1
            /\ b0 # FAN_LEVEL_1 =>
                   /\ b1 = FAN_LEVEL_2 => level = 2
                   /\ b1 = FAN_LEVEL_3 => level = 3
                   /\ b1 = FAN_LEVEL_4 => level = 4
                   /\ b1 \notin {FAN_LEVEL_2, FAN_LEVEL_3, FAN_LEVEL_4} => level = 0

\* Byte 0 says level 1 while byte 1 says level 3: decoded as 1.
C33_Witness_BothBytesMatch ==
    /\ calc.fn = "get_status" /\ calc.done /\ calc.exc = "None"
    /\ Len(calc.in.status) > STATUS_FAN_LEVEL_2_4_BYTE
    /\ calc.in.status[STATUS_FAN_LEVEL_1_BYTE + 1] = FAN_LEVEL_1
    /\ calc.in.status[STATUS_FAN_LEVEL_2_4_BYTE + 1] = FAN_LEVEL_3
    /\ calc.out.fan_level = 1

\* C34: with status bytes long enough, _get_status raises nothing whatever
\* the length of the brightness and color bytes: fewer than 6 brightness
\* bytes give 0 for both brightness percentages, fewer than 8 color bytes
\* give 0 for both color percentages, and otherwise each percentage p is
\* the floor of byte * 100 / 255 (p * 255 <= byte * 100 < (p + 1) * 255).
C34_ShortBuffersDecodeToZero ==
    (/\ calc.fn = "get_status" /\ calc.done
     /\ Len(calc.in.status) > STATUS_POSTRUN_BYTE) =>
        LET br == calc.in.brightness
            co == calc.in.colors
            out == calc.out
            IsFloor(p, b) == p * 255 <= b * 100 /\ b * 100 < (p + 1) * 255
        IN  /\ calc.exc = "None"
            /\ IF Len(br) < 6
               THEN out.light_bottom_brightness = 0 /\ out.light_top_brightness = 0
               ELSE /\ IsFloor(out.light_bottom_brightness, br[5])
                    /\ IsFloor(out.light_top_brightness, br[6])
            /\ IF Len(co) < 8
               THEN out.light_bottom_color = 0 /\ out.light_top_color = 0
               ELSE /\ IsFloor(out.light_bottom_color, co[7])
                    /\ IsFloor(out.light_top_color, co[8])

\* Brightness bytes 128 and 191 decoded as 50 and 74 next to color bytes
\* one short of the eight needed.
C34_Witness_ExampleAndShortColors ==
    /\ calc.fn = "get_status" /\ calc.done /\ calc.exc = "None"
    /\ calc.in.brightness = <<0, 0, 0, 0, 128, 191>>
    /\ Len(calc.in.colors) = 7
    /\ calc.out.light_bottom_brightness = 50
    /\ calc.out.light_top_brightness = 74
    /\ calc.out.light_bottom_color = 0
    /\ calc.out.light_top_color = 0

\* The hex digits of a payload as numbers: two per byte, or the characters
\* of a string of hex digits with the spaces left out.
LegacyDigits(payload) ==
    IF payload.kind = "bytes"
    THEN [i \in 1..(2 * Len(payload.val)) |->
             IF i % 2 = 1 THEN payload.val[(i + 1) \div 2] \div 16
                          ELSE payload.val[i \div 2] % 16]
    ELSE LET chars == RemoveSpaces(payload.val)
         IN  [i \in DOMAIN chars |-> HexValue(LowerChar(chars[i]))]

\* The payload is bytes or a string of hex digits, and has 18 of them.
LegacyDecodable(payload) ==
    /\ payload.kind \in {"bytes", "str"}
    /\ payload.kind = "str" => ValidHex(payload.val)
    /\ Len(LegacyDigits(payload)) >= 18

\* C35: for every payload of at least 18 hex digits the parser returns a
\* dict in which fan_level is the byte at digits 12-13, or 3 when that byte
\* is above 3, light_top_on and light_bottom_on both equal "bit 0 of digit
\* 17 or bit 0 of digit 23 is set", and the two brightness and the two color
\* fields are 0; update_device returns a device with these values.
C35_LegacyDecodeShape ==
    (calc.fn = "legacy_parser" /\ calc.stage >= 1 /\ LegacyDecodable(calc.in)) =>
        LET d == LegacyDigits(calc.in)
            fan_byte == 16 * d[13] + d[14]
            illumination == d[18] % 2 = 1
            effect_light == Len(d) >= 24 /\ d[24] % 2 = 1
            out == calc.parsed.data
        IN  /\ ~calc.parsed.none
            /\ out.fan_level \in 0..3
            /\ out.fan_level = IF fan_byte > 3 THEN 3 ELSE fan_byte
            /\ out.light_top_on = (illumination \/ effect_light)
            /\ out.light_bottom_on = out.light_top_on
            /\ out.light_top_brightness = 0 /\ out.light_bottom_brightness = 0
            /\ out.light_top_color = 0 /\ out.light_bottom_color = 0
            /\ calc.stage = 2 => calc.device = out

\* A 12-byte payload with fan byte 4 and only the effect-light bit set was
\* decoded and returned: level 3, both lights on.
C35_Witness_CappedWithEffectLight ==
    /\ calc.fn = "legacy_parser" /\ calc.stage = 2
    /\ calc.in.kind = "bytes" /\ Len(calc.in.val) = 12
    /\ calc.in.val[7] = 4
    /\ calc.in.val[9] % 2 = 0
    /\ calc.in.val[12] % 2 = 1
    /\ calc.device.fan_level = 3
    /\ calc.device.light_top_on /\ calc.device.light_bottom_on

\* C36: for a payload that is absent, has fewer than 18 hex digits or is
\* a string with a character that is no hex digit, the parser returns None
\* and update_device on the legacy peer returns the default device (fan
\* level 0, lights off, no postrun, brightness and color 0).
C36_LegacyFailsClosed ==
    (/\ calc.fn = "legacy_parser" /\ calc.stage >= 1
     /\ \/ calc.in.kind = "absent"
        \/ calc.in.kind = "bytes" /\ 2 * Len(calc.in.val) < 18
        \/ calc.in.kind = "str" /\ Len(RemoveSpaces(calc.in.val)) < 18
        \/ calc.in.kind = "str" /\ ~ValidHex(calc.in.val)) =>
        /\ calc.parsed.none
        /\ calc.stage = 2 => calc.device = DefaultDevice

\* C37: _disconnect_pending is True only while _active_client is set, and
\* a timer is pending in the event loop (or kept armed in
\* _connection_timeout_handle) only while _active_client is set.
C37_PendingAndTimerNeedClient ==
    /\ disconnect_pending => active_client # 0
    /\ loop_timers > 0 => active_client # 0
    /\ connection_timeout_handle = "armed" => active_client # 0

\* C38: at most one idle timer of the client is pending in the event loop
\* at any time, and it is the one _connection_timeout_handle refers to; a
\* coroutine that has entered _disconnect_internal, whether it goes on to
\* await disconnect() or not, has left no timer pending and no handle.
C38_AtMostOneTimer ==
    /\ [](/\ loop_timers <= 1
          /\ loop_timers = 1 => connection_timeout_handle = "armed")
    /\ [][\A t \in Procs :
             (\/ /\ task'[t].pc = "disconnecting"
                 /\ task'[t].n_disc = task[t].n_disc + 1
              \/ task[t].pc = "scheduled" /\ task'[t].pc # "scheduled") =>
                 /\ loop_timers' = 0
                 /\ connection_timeout_handle' = "None"
         ]_vars

\* A control method has got the stored connection again, without
\* connecting, and the timer it re-armed is the only one pending.
C38_Witness_RearmedOnReuse ==
    \E t \in Clients :
        /\ task[t].pc \in {"reading", "cmd_sleep", "writing"}
        /\ task[t].n_acquire = 1
        /\ task[t].n_connect = 0
        /\ task[t].client = active_client
        /\ loop_timers = 1
        /\ connection_timeout_handle = "armed"
        /\ timer_remaining = CONNECTION_TIMEOUT

====
